---- MODULE Spec2Model ----
(***************************************************************************)
(* Model of the emma-backend incident pipeline (src/emma-backend/app):     *)
(* the datetime inference engine, the assessment matcher, the rule and     *)
(* LLM extractors and the orchestrator's per-call pipeline.                *)
(*                                                                         *)
(* Text.  A transcript is a finite sequence of lexical tokens.  A token is *)
(* a maximal unit that one of the program's regular expressions can match: *)
(* a word as written (case kept), an explicit date, a clock time or a      *)
(* relative-time phrase.  re.search is the leftmost token a pattern        *)
(* matches; str.lower() is the table LowerW; a configured regex is a       *)
(* literal phrase of words, or a string re.compile rejects.                *)
(*                                                                         *)
(* Values.  Python values are tagged records: NONE, Str (a string, held as *)
(* its " | "-separated segments), Bool, Int, Iso (a string in ISO-8601     *)
(* form) and Txt (a string holding transcript tokens).                     *)
(*                                                                         *)
(* Time.  A datetime is [day, sec, aware]: days since 1970-01-01, seconds  *)
(* of the day (microseconds dropped), and whether it carries a tzinfo.     *)
(***************************************************************************)
EXTENDS Integers, Sequences, FiniteSets, TLC

VARIABLES
    pc,            \* position of the running call
    transcript,    \* the text under analysis
    force_source,  \* main.analyze's force_source query parameter
    key_present,   \* bool(os.getenv("OPENAI_API_KEY"))
    resp,          \* what the remote model service answers when it is called
    cfg_file,      \* content of incident_patterns.yml
    clock,         \* the wall clock, read by datetime.now(tz=UK_TZ)
    anchor,        \* the call-start instant / the `now` argument
    llm_ret,       \* outcome of the call to extract_with_llm
    rules_called,  \* whether extract_with_rules was invoked by this call
    facts,         \* the extractor's facts
    evidence,      \* the evidence list
    source,        \* extraction_source
    form,          \* the incident form
    draft_email,   \* the rendered email lines
    dt_info,       \* result of extract_incident_datetime
    ra_type,       \* the incident type handed to which_risk_assessment
    assess_cache,  \* lru_cache of _load_assessment_rules: <<>> or <<rules>>
    ra_result,     \* results of which_risk_assessment
    cfg_loaded,    \* outcome of load_incident_config_strict
    cfg_read,      \* what each read of the configuration returned to this call
    prev           \* the response of the previous call of this process

vars == <<pc, transcript, force_source, key_present, resp, cfg_file, clock,
          anchor, llm_ret, rules_called, facts, evidence, source, form,
          draft_email, dt_info, ra_type, assess_cache, ra_result,
          cfg_loaded, cfg_read, prev>>

----------------------------------------------------------------------------
(* Bounds of the model *)

MaxLenDt == 3
MaxLenRa == 2
MaxRules == 3
MaxLenOrch == 2
MaxLenStage == 2
MaxKeys == 1
MaxLocs == 2

----------------------------------------------------------------------------
(* Python values *)

NONE == [t |-> "none"]
Str(segs) == [t |-> "str", s |-> segs]
Bool(b) == [t |-> "bool", b |-> b]
Int_(i) == [t |-> "int", i |-> i]
Iso(day, sec, off) == [t |-> "iso", day |-> day, sec |-> sec, off |-> off]
Txt(toks) == [t |-> "txt", toks |-> toks]

\* Python truthiness of a value (bool(v))
Truthy(v) ==
    CASE v.t = "none" -> FALSE
      [] v.t = "str" -> v.s # <<>>
      [] v.t = "bool" -> v.b
      [] v.t = "int" -> v.i # 0
      [] v.t = "txt" -> v.toks # <<>>
      [] OTHER -> TRUE

Abs(n) == IF n < 0 THEN 0 - n ELSE n

----------------------------------------------------------------------------
(* Tokens *)

W(s) == [k |-> "w", s |-> s]
DateNum(f, d, m, y, ylen) ==
    [k |-> "date", f |-> f, d |-> d, m |-> m, mn |-> "", y |-> y, ylen |-> ylen]
DateName(f, d, mn, y, ylen) ==
    [k |-> "date", f |-> f, d |-> d, m |-> 0, mn |-> mn, y |-> y, ylen |-> ylen]
TimeTok(f, h, mi, ap) == [k |-> "time", f |-> f, h |-> h, mi |-> mi, ap |-> ap]
RelTok(f, n, part) == [k |-> "rel", f |-> f, n |-> n, part |-> part]

\* re.search(pat, s): index of the leftmost token the pattern matches, 0 if none
FirstIdx(text, P(_)) ==
    IF \E i \in 1..Len(text) : P(text[i])
    THEN CHOOSE i \in 1..Len(text) :
            P(text[i]) /\ \A j \in 1..(i - 1) : ~P(text[j])
    ELSE 0

\* all sequences over S of length at most n
SeqsUpTo(S, n) == UNION {[1..l -> S] : l \in 0..n}

----------------------------------------------------------------------------
(* Calendar arithmetic of datetime *)

IsLeap(y) == (y % 4 = 0 /\ y % 100 # 0) \/ y % 400 = 0

DaysInMonth(y, m) ==
    IF m \in {1, 3, 5, 7, 8, 10, 12} THEN 31
    ELSE IF m \in {4, 6, 9, 11} THEN 30
    ELSE IF IsLeap(y) THEN 29 ELSE 28

\* whether datetime(year, month, day) constructs (otherwise ValueError)
ValidDate(y, m, d) ==
    /\ y \in 1..9999
    /\ m \in 1..12
    /\ d \in 1..DaysInMonth(y, m)

\* day number of a valid civil date, days since 1970-01-01
DaysFromCivil(y, m, d) ==
    LET yy == IF m <= 2 THEN y - 1 ELSE y
        era == yy \div 400
        yoe == yy - era * 400
        mp == IF m > 2 THEN m - 3 ELSE m + 9
        doy == ((153 * mp + 2) \div 5) + d - 1
        doe == yoe * 365 + (yoe \div 4) - (yoe \div 100) + doy
    IN era * 146097 + doe - 719468

DT(day, sec, aware) == [day |-> day, sec |-> sec, aware |-> aware]

\* dt.replace(hour=h, minute=mi, second=0, microsecond=0)
ReplaceHM(dt, h, mi) == [dt EXCEPT !.sec = h * 3600 + mi * 60]

\* dt.replace(second=0, microsecond=0)
ReplaceS0(dt) == [dt EXCEPT !.sec = dt.sec - (dt.sec % 60)]

\* dt - timedelta(seconds=s)
MinusSeconds(dt, s) ==
    LET total == dt.sec - s
    IN [dt EXCEPT !.day = dt.day + (total \div 86400), !.sec = total % 86400]

\* dt.isoformat(): the offset is written only for an aware datetime; the
\* offset of Europe/London is written "+00:00" whatever the season
isoformat(dt) == Iso(dt.day, dt.sec, IF dt.aware THEN "+00:00" ELSE "")

----------------------------------------------------------------------------
(* util/datetime_extract.py *)

DATE_PATTERNS == <<"slash", "dash", "mon", "month">>
TIME_PATTERNS == <<"hm_ap", "h_ap", "hm", "noon", "midnight">>

\* (mutant) the relative patterns with hours tried before minutes
RELATIVE_PATTERNS_HoursFirst ==
    <<"hours", "minutes", "yesterday", "daypart", "last_night">>

RELATIVE_PATTERNS == <<"minutes", "hours", "yesterday", "daypart", "last_night">>

\* DAYPART_DEFAULTS.get(part, (12, 0))
DAYPART_DEFAULTS(part) ==
    CASE part = "morning" -> <<9, 0>>
      [] part = "afternoon" -> <<15, 0>>
      [] part = "evening" -> <<19, 0>>
      [] part = "night" -> <<22, 0>>
      [] OTHER -> <<12, 0>>

\* which tokens each DATE_PATTERNS regex matches: the third accepts any word
\* that starts with a month abbreviation, the fourth only the full names
MatchesDate(f, tok) ==
    /\ tok.k = "date"
    /\ CASE f = "slash" -> tok.f = "slash"
         [] f = "dash" -> tok.f = "dash"
         [] f = "mon" -> tok.f \in {"mon", "month"}
         [] OTHER -> tok.f = "month"

MatchesTime(f, tok) == tok.k = "time" /\ tok.f = f

MatchesRel(f, tok) == tok.k = "rel" /\ tok.f = f

\* datetime.strptime(mth[:3].title(), "%b").month, 0 when strptime raises
MonthOfName(mn) ==
    CASE mn \in {"jan", "january"} -> 1
      [] mn \in {"feb", "february"} -> 2
      [] mn \in {"mar", "march"} -> 3
      [] mn \in {"apr", "april"} -> 4
      [] mn \in {"may"} -> 5
      [] mn \in {"jun", "june"} -> 6
      [] mn \in {"jul", "july"} -> 7
      [] mn \in {"aug", "august"} -> 8
      [] mn \in {"sep", "sept", "september"} -> 9
      [] mn \in {"oct", "october"} -> 10
      [] mn \in {"nov", "november"} -> 11
      [] mn \in {"dec", "december"} -> 12
      [] OTHER -> 0

\* the year, month and day the date loop derives from one match
DateYear(tok) == IF tok.ylen = 2 THEN tok.y + 2000 ELSE tok.y
DateMonth(tok) == IF tok.f \in {"slash", "dash"} THEN tok.m ELSE MonthOfName(tok.mn)

\* (mutant) the date check without the guarded datetime(...) construction
DateParsesUnguarded(tok) ==
    tok.d # 0 /\ DateMonth(tok) # 0 /\ DateYear(tok) # 0

\* `if day and month and year:` followed by the guarded datetime(...) call
DateParses(tok) ==
    /\ tok.d # 0 /\ DateMonth(tok) # 0 /\ DateYear(tok) # 0
    /\ ValidDate(DateYear(tok), DateMonth(tok), tok.d)

\* the explicit-date loop from pattern p on: (date_val, date_quote)
RECURSIVE DateLoop(_, _, _)
DateLoop(text, p, quote) ==
    IF p > Len(DATE_PATTERNS) THEN [val |-> NONE, quote |-> quote]
    ELSE LET i == FirstIdx(text, LAMBDA tok : MatchesDate(DATE_PATTERNS[p], tok))
         IN IF i = 0 THEN DateLoop(text, p + 1, quote)
            ELSE IF DateParses(text[i])
                 THEN [val |-> [t |-> "dt",
                                dt |-> DT(DaysFromCivil(DateYear(text[i]),
                                                        DateMonth(text[i]),
                                                        text[i].d), 0, TRUE)],
                       quote |-> <<text[i]>>]
                 ELSE DateLoop(text, p + 1, <<text[i]>>)

\* the (hour, minute) one time match yields
TimeOfMatch(tok) ==
    CASE tok.f = "noon" -> <<12, 0>>
      [] tok.f = "midnight" -> <<0, 0>>
      [] tok.f = "hm_ap" ->
            LET h1 == IF tok.ap = "pm" /\ tok.h # 12 THEN tok.h + 12 ELSE tok.h
                h2 == IF tok.ap = "am" /\ h1 = 12 THEN 0 ELSE h1
            IN <<h2 % 24, tok.mi % 60>>
      [] tok.f = "h_ap" ->
            LET h1 == IF tok.ap = "pm" /\ tok.h # 12 THEN tok.h + 12 ELSE tok.h
                h2 == IF tok.ap = "am" /\ h1 = 12 THEN 0 ELSE h1
            IN <<h2 % 24, 0>>
      [] OTHER -> <<tok.h % 24, tok.mi % 60>>

\* the explicit-time loop from pattern p on: (time_val, time_quote)
RECURSIVE TimeLoop(_, _)
TimeLoop(text, p) ==
    IF p > Len(TIME_PATTERNS) THEN [val |-> <<>>, quote |-> <<>>]
    ELSE LET i == FirstIdx(text, LAMBDA tok : MatchesTime(TIME_PATTERNS[p], tok))
         IN IF i = 0 THEN TimeLoop(text, p + 1)
            ELSE [val |-> TimeOfMatch(text[i]), quote |-> <<text[i]>>]

DtResult(value, confidence, method, quote) ==
    [value |-> value, confidence |-> confidence, method |-> method,
     evidence_quote |-> quote]

\* the value one relative match yields
RelativeValue(tok, now) ==
    CASE tok.f = "minutes" -> ReplaceS0(MinusSeconds(now, tok.n * 60))
      [] tok.f = "hours" -> ReplaceS0(MinusSeconds(now, tok.n * 3600))
      [] tok.f = "yesterday" -> ReplaceHM(MinusSeconds(now, 86400), 12, 0)
      [] tok.f = "last_night" -> ReplaceHM(MinusSeconds(now, 86400), 22, 0)
      [] OTHER -> ReplaceHM(now, DAYPART_DEFAULTS(tok.part)[1],
                            DAYPART_DEFAULTS(tok.part)[2])

\* the relative loop from pattern p on
RECURSIVE RelativeLoop(_, _, _)
RelativeLoop(text, now, p) ==
    IF p > Len(RELATIVE_PATTERNS)
    THEN DtResult(NONE, "none", "none", NONE)
    ELSE LET i == FirstIdx(text, LAMBDA tok : MatchesRel(RELATIVE_PATTERNS[p], tok))
         IN IF i = 0 THEN RelativeLoop(text, now, p + 1)
            ELSE DtResult(isoformat(RelativeValue(text[i], now)), "low",
                          "relative", Txt(<<text[i]>>))

extract_incident_datetime(text, now) ==
    LET date == DateLoop(text, 1, <<>>)
        time == TimeLoop(text, 1)
        hasDate == date.val # NONE
        hasTime == time.val # <<>>
    IN IF hasDate \/ hasTime
       THEN LET base == IF hasDate THEN date.val.dt ELSE now
                hm == IF hasTime THEN time.val ELSE <<12, 0>>
                quote == IF time.quote # <<>> THEN time.quote ELSE date.quote
            IN DtResult(isoformat(ReplaceHM(base, hm[1], hm[2])),
                        IF hasDate /\ hasTime THEN "high" ELSE "medium",
                        "explicit", Txt(quote))
       ELSE RelativeLoop(text, now, 1)

----------------------------------------------------------------------------
(* Words, case and configured regular expressions *)

\* str.lower() on one word as written
LowerW(s) ==
    CASE s = "It's" -> "it's"
      [] s = "Greg" -> "greg"
      [] s = "Jones" -> "jones"
      [] s = "Fell" -> "fell"
      [] s = "Fever" -> "fever"
      [] s = "Hi" -> "hi"
      [] s = "Living" -> "living"
      [] OTHER -> s

\* words that [A-Z][a-z]+ matches from their first to their last character
IsCapWord(s) == s \in {"Greg", "Jones", "Fell", "Living", "Fever", "Hi"}

\* what ([A-Z][a-z]+)\b matches at the start of a word, "" if nothing
CapHead(s) == IF IsCapWord(s) THEN s ELSE IF s = "It's" THEN "It" ELSE ""

\* text.lower() / low: every word lowercased, other tokens kept
LowerTok(tok) == IF tok.k = "w" THEN W(LowerW(tok.s)) ELSE tok
Lower(text) == [i \in 1..Len(text) |-> LowerTok(text[i])]

\* a configured regex: a literal phrase, or a string re.compile rejects
Lit(ws) == [re |-> "lit", ws |-> ws]
BadRe == [re |-> "bad"]

\* the phrase ws stands at tokens i .. i+Len(ws)-1 of text, compared as written
PhraseAt(text, ws, i) ==
    /\ i + Len(ws) - 1 <= Len(text)
    /\ \A j \in 1..Len(ws) : text[i + j - 1] = W(ws[j])

\* s.find(sub) over tokens: 0-based index of the first occurrence, -1 if none
Find(text, ws) ==
    IF \E i \in 1..(Len(text) + 1) : PhraseAt(text, ws, i)
    THEN (CHOOSE i \in 1..(Len(text) + 1) :
            PhraseAt(text, ws, i) /\ \A j \in 1..(i - 1) : ~PhraseAt(text, ws, j)) - 1
    ELSE 0 - 1

LowerWs(ws) == [j \in 1..Len(ws) |-> LowerW(ws[j])]

\* re.search(pat, s, flags=re.IGNORECASE) for a literal pattern: the span
\* <<start, end>> of the leftmost match (0-based, end exclusive), <<>> if none
SpanAt(i, n) == IF i < 0 THEN <<>> ELSE <<i, i + n>>
SearchIgnoreCase(pat, text) ==
    SpanAt(Find(Lower(text), LowerWs(pat.ws)), Len(pat.ws))

\* text[s:e]
Slice(text, s, e) == SubSeq(text, s + 1, e)

----------------------------------------------------------------------------
(* config/incident_config.py *)

\* yaml values of the top-level keys the loader validates
YMap(items) == [t |-> "map", items |-> items]
YList(items) == [t |-> "list", items |-> items]

\* `v or default` on a yaml value
YTruthy(v) ==
    CASE v.t = "none" -> FALSE
      [] v.t \in {"map", "list"} -> v.items # <<>>
      [] OTHER -> Truthy(v)

load_incident_config_strict(file) ==
    IF ~file.exists THEN [raised |-> TRUE, exc |-> "RuntimeError"]
    ELSE LET patterns == IF YTruthy(file.patterns) THEN file.patterns ELSE YMap(<<>>)
             locations == IF YTruthy(file.locations) THEN file.locations ELSE YList(<<>>)
         IN IF patterns.t # "map" \/ locations.t # "list"
            THEN [raised |-> TRUE, exc |-> "RuntimeError"]
            ELSE [raised |-> FALSE,
                  patterns |-> patterns.items,
                  locations |-> [i \in 1..Len(locations.items) |->
                                    LowerWs(locations.items[i])]]

\* notifications.global_policy_triggers
load_global_policy_triggers(file) ==
    [contact_gp_if |-> file.contact_gp_if, call_999_if |-> file.call_999_if]

load_notifications(file) ==
    [always_notify |-> file.always_notify, cc_by_assessment |-> file.cc_by_assessment]

----------------------------------------------------------------------------
(* rules/assessments.py *)

\* the normalisation loop of _load_assessment_rules: rules without a name or
\* without patterns are dropped, an empty incident_types becomes None
RECURSIVE NormalizeRules(_)
NormalizeRules(rs) ==
    IF rs = <<>> THEN <<>>
    ELSE LET r == Head(rs)
         IN IF r.name = "" \/ r.patterns = <<>>
            THEN NormalizeRules(Tail(rs))
            ELSE <<r>> \o NormalizeRules(Tail(rs))

_load_assessment_rules(file) == NormalizeRules(file.assessments)

\* the pattern loop of one rule, from pattern p on: the first match's span
RECURSIVE RulePatternLoop(_, _, _)
RulePatternLoop(pats, low, p) ==
    IF p > Len(pats) THEN <<>>
    ELSE IF pats[p].re = "bad" THEN RulePatternLoop(pats, low, p + 1)
    ELSE LET m == SearchIgnoreCase(pats[p], low)
         IN IF m # <<>> THEN m ELSE RulePatternLoop(pats, low, p + 1)

\* (mutant) the rule loop with a later matching rule preferred to an earlier one
RECURSIVE RuleLoopLast(_, _, _, _)
RuleLoopLast(rules, text, incident_type, r) ==
    IF r > Len(rules) THEN [name |-> NONE, quote |-> NONE]
    ELSE LET later == RuleLoopLast(rules, text, incident_type, r + 1)
             rule == rules[r]
             m == RulePatternLoop(rule.patterns, Lower(text), 1)
         IN IF later.name # NONE THEN later
            ELSE IF rule.incident_types # {} /\ incident_type \notin rule.incident_types
                 THEN later
            ELSE IF m # <<>>
                 THEN [name |-> Str(<<rule.name>>), quote |-> Txt(Slice(text, m[1], m[2]))]
                 ELSE later

\* the rule loop, from rule r on
RECURSIVE RuleLoop(_, _, _, _)
RuleLoop(rules, text, incident_type, r) ==
    IF r > Len(rules) THEN [name |-> NONE, quote |-> NONE]
    ELSE LET rule == rules[r]
             allowed_types == rule.incident_types
         IN IF allowed_types # {} /\ incident_type \notin allowed_types
            THEN RuleLoop(rules, text, incident_type, r + 1)
            ELSE LET m == RulePatternLoop(rule.patterns, Lower(text), 1)
                 IN IF m # <<>>
                    THEN [name |-> Str(<<rule.name>>),
                          quote |-> Txt(Slice(text, m[1], m[2]))]
                    ELSE RuleLoop(rules, text, incident_type, r + 1)

\* incident_type is the detected type name, "" standing for None
which_risk_assessment(rules, text, incident_type) ==
    RuleLoop(rules, text, incident_type, 1)

----------------------------------------------------------------------------
(* rules/extract.py *)

FactKeys ==
    {"incident_type", "service_user_name", "location", "description",
     "immediate_actions_taken", "was_first_aid_administered",
     "were_emergency_services_contacted", "who_was_notified", "witnesses",
     "agreed_next_steps", "risk_assessment_needed",
     "if_yes_which_risk_assessment", "date_time_of_incident"}

Ev(field, quote, start_idx, end_idx) ==
    [field |-> field, quote |-> quote, start_idx |-> start_idx, end_idx |-> end_idx]

\* _find_spans: re.finditer compiles the pattern outside any try block; of the
\* spans only the first is read by the caller
_find_spans(text, pat) ==
    IF pat.re = "bad" THEN [raised |-> TRUE, spans |-> <<>>]
    ELSE LET m == SearchIgnoreCase(pat, text)
         IN [raised |-> FALSE, spans |-> IF m = <<>> THEN <<>> ELSE <<m>>]

\* where the introduction regex \bit['’]s\s+([A-Z][a-z]+)\.?\s+([A-Z][a-z]+)\b
\* matches at token i; it is searched without re.IGNORECASE
NameAt(text, i) ==
    /\ i + 2 <= Len(text)
    /\ text[i] = W("it's")
    /\ text[i + 1].k = "w" /\ IsCapWord(text[i + 1].s)
    /\ text[i + 2].k = "w" /\ CapHead(text[i + 2].s) # ""

NameIdx(text) ==
    IF \E i \in 1..Len(text) : NameAt(text, i)
    THEN CHOOSE i \in 1..Len(text) :
            NameAt(text, i) /\ \A j \in 1..(i - 1) : ~NameAt(text, j)
    ELSE 0

\* the incident-type loops, from type t and pattern p on
RECURSIVE TypeLoop(_, _, _, _)
TypeLoop(items, text, t, p) ==
    IF t > Len(items) THEN [raised |-> FALSE, type |-> "", span |-> <<>>]
    ELSE IF p > Len(items[t].pats) THEN TypeLoop(items, text, t + 1, 1)
    ELSE LET r == _find_spans(text, items[t].pats[p])
         IN IF r.raised THEN [raised |-> TRUE, type |-> "", span |-> <<>>]
            ELSE IF r.spans # <<>>
                 THEN [raised |-> FALSE, type |-> items[t].type, span |-> r.spans[1]]
                 ELSE TypeLoop(items, text, t, p + 1)

\* the location loop, from location l on: <<loc, idx>> of the first hit
RECURSIVE LocationLoop(_, _, _)
LocationLoop(locations, low, l) ==
    IF l > Len(locations) THEN <<>>
    ELSE LET idx == Find(low, locations[l])
         IN IF idx # 0 - 1 THEN <<locations[l], idx>>
            ELSE LocationLoop(locations, low, l + 1)

\* re.search(r"\b(999|ambulance|emergency services|paramedic)\b", low)
EmergencyMentioned(low) ==
    \/ \E i \in 1..Len(low) : low[i] \in {W("999"), W("ambulance"), W("paramedic")}
    \/ Find(low, <<"emergency", "services">>) # 0 - 1

\* a phrase of words written out as one string, and as a string value
RECURSIVE JoinWords(_)
JoinWords(ws) ==
    IF ws = <<>> THEN ""
    ELSE IF Len(ws) = 1 THEN ws[1]
    ELSE ws[1] \o " " \o JoinWords(Tail(ws))

PhraseStr(ws) == Str(<<JoinWords(ws)>>)

\* the facts dictionary extract_with_rules fills: n is where the introduction
\* matched (0 if nowhere), ty the type loop's result, loc the location loop's,
\* ra the assessment matcher's
RulesFacts(text, low, n, ty, loc, ra) ==
    [k \in FactKeys |->
        CASE k = "incident_type" ->
               IF ty.type = "" THEN NONE ELSE Str(<<ty.type>>)
          [] k = "service_user_name" ->
               IF n = 0 THEN NONE
               ELSE Str(<<text[n + 1].s \o " " \o CapHead(text[n + 2].s)>>)
          [] k = "location" ->
               IF loc = <<>> THEN NONE ELSE PhraseStr(loc[1])
          [] k = "description" -> Txt(text)
          [] k = "was_first_aid_administered" -> Bool(FALSE)
          [] k = "were_emergency_services_contacted" ->
               Bool(EmergencyMentioned(low))
          [] k = "risk_assessment_needed" -> Bool(Truthy(ra.name))
          [] k = "if_yes_which_risk_assessment" ->
               IF Truthy(ra.name) THEN ra.name ELSE NONE
          [] k = "who_was_notified" ->
               IF ty.type = "fall"
               THEN Str(<<"Supervisor (mandatory); CC Risk Assessor if recurring falls">>)
               ELSE NONE
          [] OTHER -> NONE]

\* the evidence list extract_with_rules fills, in the order of its appends;
\* ra_i is low.find(ra_quote.lower())
RulesEvidence(text, n, ty, loc, ra, ra_i) ==
    (IF n = 0 THEN <<>>
     ELSE <<Ev("service_user_name",
               Txt(<<text[n], text[n + 1], W(CapHead(text[n + 2].s))>>),
               Int_(n), Int_(n + 2))>>)
    \o (IF ty.type = "" THEN <<>>
        ELSE <<Ev("incident_type", Txt(Slice(text, ty.span[1], ty.span[2])),
                  Int_(ty.span[1]), Int_(ty.span[2]))>>)
    \o (IF loc = <<>> THEN <<>>
        ELSE <<Ev("location", Txt(Slice(text, loc[2], loc[2] + Len(loc[1]))),
                  Int_(loc[2]), Int_(loc[2] + Len(loc[1])))>>)
    \o (IF Truthy(ra.name) /\ Truthy(ra.quote)
        THEN <<Ev("risk_assessment_needed", ra.quote,
                  IF ra_i >= 0 THEN Int_(ra_i) ELSE NONE,
                  IF ra_i >= 0 THEN Int_(ra_i + Len(ra.quote.toks)) ELSE NONE)>>
        ELSE <<>>)

\* lines 82-100: the assessment's evidence and the returned pair
RulesResult(text, low, n, ty, loc, ra) ==
    [raised |-> FALSE,
     facts |-> RulesFacts(text, low, n, ty, loc, ra),
     evidence |->
        RulesEvidence(text, n, ty, loc, ra,
                      IF ra.quote = NONE THEN 0 - 1
                      ELSE Find(low, [j \in 1..Len(ra.quote.toks) |->
                                         LowerW(ra.quote.toks[j].s)]))]

\* lines 62-82: an exception of the type loop leaves the function; otherwise the
\* assessment matcher is asked with the detected type
RulesAfterType(text, low, n, ty, loc, rules) ==
    IF ty.raised THEN [raised |-> TRUE, facts |-> <<>>, evidence |-> <<>>]
    ELSE RulesResult(text, low, n, ty, loc,
                     which_risk_assessment(rules, text, ty.type))

\* lines 13-60, with the configuration as loaded
RulesWithConfig(text, cfg, rules) ==
    IF cfg.raised THEN [raised |-> TRUE, facts |-> <<>>, evidence |-> <<>>]
    ELSE RulesAfterType(text, Lower(text), NameIdx(text),
                        TypeLoop(cfg.patterns, text, 1, 1),
                        LocationLoop(cfg.locations, Lower(text), 1), rules)

\* extract_with_rules(text), reading the configuration file and the cached
\* assessment rules: [raised, facts, evidence]
extract_with_rules(text, file, rules) ==
    RulesWithConfig(text, load_incident_config_strict(file), rules)

----------------------------------------------------------------------------
(* llm/extract.py *)

ALLOWED_INCIDENT_TYPES ==
    {"fall", "medication_refusal", "medication_missed", "medication_error",
     "aggressive_behavior", "verbal_abuse", "self_harm", "wandering",
     "medical_emergency", "near_miss", "equipment_failure", "safeguarding_concern"}

ALLOWED_RISK_ASSESSMENTS ==
    {"moving and handling risk assessment review", "medication management review",
     "mental health/wellbeing review", "infection control review",
     "personal care & dignity plan review",
     "moving & handling / equipment safety review"}

\* `v in ALLOWED`, the list holding the names and None
InAllowed(v, names) ==
    \/ v = NONE
    \/ v.t = "str" /\ Len(v.s) = 1 /\ v.s[1] \in names

\* data.get(k)
Get(data, k) == IF k \in DOMAIN data THEN data[k] ELSE NONE

\* the empty dict and `{**d, k: v}`
EmptyDict == <<>>
Put(d, k, v) == [x \in DOMAIN d \cup {k} |-> IF x = k THEN v ELSE d[x]]

\* the three clamping statements applied to the parsed object
ClampType(data) ==
    IF ~InAllowed(Get(data, "incident_type"), ALLOWED_INCIDENT_TYPES)
    THEN Put(data, "incident_type", NONE) ELSE data

\* (mutant) the assessment name of the answer taken as it is
ClampAssessmentUnchecked(data) == data

ClampAssessment(data) ==
    IF ~InAllowed(Get(data, "if_yes_which_risk_assessment"), ALLOWED_RISK_ASSESSMENTS)
    THEN Put(data, "if_yes_which_risk_assessment", NONE) ELSE data

FillNeeded(data) ==
    IF "risk_assessment_needed" \notin DOMAIN data
    THEN Put(data, "risk_assessment_needed",
             Bool(Truthy(Get(data, "if_yes_which_risk_assessment"))))
    ELSE data

Clamp(data) == FillNeeded(ClampAssessment(ClampType(data)))

\* one evidence item of the model's answer: a dict with some of field/quote,
\* or a value that is no dict
EvItem(has_field, has_quote) ==
    [t |-> "dict", has_field |-> has_field, has_quote |-> has_quote,
     field |-> "location", quote |-> Str(<<"in the lounge">>)]

\* the evidence loop over a list
RECURSIVE EvidenceLoop(_)
EvidenceLoop(items) ==
    IF items = <<>> THEN <<>>
    ELSE LET item == Head(items)
         IN (IF item.t = "dict" /\ item.has_field /\ item.has_quote
             THEN <<Ev(item.field, item.quote, NONE, NONE)>>
             ELSE <<>>) \o EvidenceLoop(Tail(items))

\* the keyword parameters `def extract_with_llm(text: str)` accepts
extract_with_llm_params == {"text"}

LlmFailed == [raised |-> FALSE, facts |-> EmptyDict, evidence |-> <<>>]

\* lines 116-146: facts and evidence out of the clamped object; iterating a
\* null, a number or a boolean raises inside the try block
LlmResult(data, evidence_in) ==
    IF evidence_in.t \in {"none", "int", "bool"} THEN LlmFailed
    ELSE [raised |-> FALSE,
          facts |-> [k \in DOMAIN data \cap FactKeys |-> data[k]],
          evidence |-> IF evidence_in.t = "list"
                       THEN EvidenceLoop(evidence_in.items) ELSE <<>>]

LlmClamped(data) ==
    LlmResult(data, IF "evidence" \in DOMAIN data THEN data["evidence"]
                    ELSE YList(<<>>))

\* the body of extract_with_llm: [raised, facts, evidence]
extract_with_llm(key, answer) ==
    IF ~key THEN LlmFailed
    ELSE IF answer.r # "object" THEN LlmFailed
    ELSE LlmClamped(Clamp(answer.data))

\* a call extract_with_llm(text, **kwargs): Python binds the arguments before
\* the body runs and raises TypeError for a keyword the signature lacks
Call_extract_with_llm(kwargs, key, answer) ==
    IF kwargs \subseteq extract_with_llm_params
    THEN extract_with_llm(key, answer)
    ELSE [raised |-> TRUE, facts |-> EmptyDict, evidence |-> <<>>]

----------------------------------------------------------------------------
(* services/orchestrator.py *)

FormKeys ==
    {"date_time_of_incident", "reported_at", "service_user_name", "location",
     "type_of_incident", "description_of_the_incident", "immediate_actions_taken",
     "was_first_aid_administered", "were_emergency_services_contacted",
     "who_was_notified", "witnesses", "agreed_next_steps",
     "risk_assessment_needed", "if_yes_which_risk_assessment"}

_default_form(now) ==
    [k \in FormKeys |->
        CASE k = "reported_at" -> isoformat(now)
          [] k = "description_of_the_incident" -> Str(<<>>)
          [] k \in {"was_first_aid_administered", "were_emergency_services_contacted",
                    "risk_assessment_needed"} -> Bool(FALSE)
          [] OTHER -> NONE]

\* the rename map of _facts_to_form, read from the form key to the fact key
mapping(k_dst) ==
    CASE k_dst = "type_of_incident" -> "incident_type"
      [] k_dst = "description_of_the_incident" -> "description"
      [] OTHER -> k_dst

\* (mutant) the form holds only the keys the extractor supplied
_facts_to_form_SuppliedOnly(fs, now) ==
    [k \in {x \in FormKeys : mapping(x) \in DOMAIN fs} |-> fs[mapping(k)]]

_facts_to_form(fs, now) ==
    [k \in FormKeys |->
        IF k # "reported_at" /\ mapping(k) \in DOMAIN fs
        THEN fs[mapping(k)]
        ELSE _default_form(now)[k]]

HINT == "Incident time inferred from context - please confirm"
GP_ACTION == "Contact GP immediately (policy trigger)"
CALL_999_ACTION == "Call 999 / emergency services (life-threatening trigger)"

\* (mutant) the appended text replaces the existing actions
AppendActionsOverwriting(existing, segs) == Str(segs)

\* f"{existing} | {text}" if existing else text, text given as its segments
AppendActions(existing, segs) ==
    IF Truthy(existing) THEN Str(existing.s \o segs) ELSE Str(segs)

DtEvidence(quote) == Ev("date_time_of_incident", quote, NONE, NONE)

\* (mutant) the evidence list restarted with the datetime entry
SetInferredEvidenceReset(fm, ev, info) ==
    [form |->
        IF info.confidence = "low"
        THEN [fm EXCEPT !["date_time_of_incident"] = info.value,
                        !["immediate_actions_taken"] =
                            AppendActions(fm["immediate_actions_taken"], <<HINT>>)]
        ELSE [fm EXCEPT !["date_time_of_incident"] = info.value],
     evidence |-> IF Truthy(info.evidence_quote)
                  THEN <<DtEvidence(info.evidence_quote)>>
                  ELSE ev]

\* (mutant) the hint appended whatever the confidence
SetInferredAlwaysHint(fm, ev, info) ==
    [form |-> [fm EXCEPT !["date_time_of_incident"] = info.value,
                         !["immediate_actions_taken"] =
                             AppendActions(fm["immediate_actions_taken"], <<HINT>>)],
     evidence |-> IF Truthy(info.evidence_quote)
                  THEN Append(ev, DtEvidence(info.evidence_quote))
                  ELSE ev]

\* form and evidence after an inferred datetime is written into them: the
\* value, the hint on low confidence, the evidence item
SetInferred(fm, ev, info) ==
    [form |->
        IF info.confidence = "low"
        THEN [fm EXCEPT !["date_time_of_incident"] = info.value,
                        !["immediate_actions_taken"] =
                            AppendActions(fm["immediate_actions_taken"], <<HINT>>)]
        ELSE [fm EXCEPT !["date_time_of_incident"] = info.value],
     evidence |-> IF Truthy(info.evidence_quote)
                  THEN Append(ev, DtEvidence(info.evidence_quote))
                  ELSE ev]

FallbackWith(fm, ev, info) ==
    IF ~Truthy(info.value) THEN [form |-> fm, evidence |-> ev]
    ELSE SetInferred(fm, ev, info)

\* _llm_datetime_fallback with datetime.now() read as `now`: [form, evidence]
_llm_datetime_fallback(fm, text, ev, now) ==
    IF Truthy(fm["date_time_of_incident"]) THEN [form |-> fm, evidence |-> ev]
    ELSE FallbackWith(fm, ev, extract_incident_datetime(text, now))

\* _has_explicit_date: the four regexes are those of DATE_PATTERNS
_has_explicit_date(text) ==
    \E p \in 1..Len(DATE_PATTERNS) :
        FirstIdx(Lower(text), LAMBDA tok : MatchesDate(DATE_PATTERNS[p], tok)) # 0

\* _parse_iso: a datetime wrapped as [t |-> "dt", dt], or NONE
_parse_iso(v) ==
    IF ~Truthy(v) THEN NONE
    ELSE IF v.t = "iso" THEN [t |-> "dt", dt |-> DT(v.day, v.sec, v.off # "")]
    ELSE NONE

\* (mutant) the threshold of implausibility lowered to one day
MoreThanOneDay(dt, anc) ==
    LET dd == dt.day - anc.day
    IN IF Abs(dd) > 8 THEN TRUE
       ELSE Abs(dd * 86400 + dt.sec - anc.sec) > 24 * 3600

\* abs((dt - anchor).total_seconds()) > 7 * 24 * 3600, both aware
MoreThanSevenDays(dt, anc) ==
    LET dd == dt.day - anc.day
    IN IF Abs(dd) > 8 THEN TRUE
       ELSE Abs(dd * 86400 + dt.sec - anc.sec) > 7 * 24 * 3600

SanityWith(fm, ev, info) ==
    IF Truthy(info.value)
    THEN [raised |-> FALSE, form |-> SetInferred(fm, ev, info).form,
          evidence |-> SetInferred(fm, ev, info).evidence]
    ELSE [raised |-> FALSE,
          form |-> [fm EXCEPT !["date_time_of_incident"] = NONE],
          evidence |-> ev]

SanityParsed(fm, text, anc, ev, parsed) ==
    IF parsed = NONE THEN [raised |-> FALSE, form |-> fm, evidence |-> ev]
    ELSE IF _has_explicit_date(text)
         THEN [raised |-> FALSE, form |-> fm, evidence |-> ev]
    ELSE IF parsed.dt.aware # anc.aware
         THEN [raised |-> TRUE, form |-> fm, evidence |-> ev]
    ELSE IF ~MoreThanSevenDays(parsed.dt, anc)
         THEN [raised |-> FALSE, form |-> fm, evidence |-> ev]
    ELSE SanityWith(fm, ev, extract_incident_datetime(text, anc))

\* _sanity_fix_incident_time: [raised, form, evidence]; subtracting an aware
\* datetime from a naive one raises TypeError
_sanity_fix_incident_time(fm, text, anc, ev) ==
    SanityParsed(fm, text, anc, ev, _parse_iso(fm["date_time_of_incident"]))

\* one trigger loop of _maybe_append_action, from pattern p on: a bad regex
\* raises re.error inside the try block and is skipped
RECURSIVE TriggerLoop(_, _, _)
TriggerLoop(pats, low, p) ==
    IF p > Len(pats) THEN FALSE
    ELSE IF pats[p].re = "bad" THEN TriggerLoop(pats, low, p + 1)
    ELSE IF SearchIgnoreCase(pats[p], low) # <<>> THEN TRUE
    ELSE TriggerLoop(pats, low, p + 1)

_maybe_append_action(fm, text, file) ==
    LET triggers == load_global_policy_triggers(file)
        low == Lower(text)
        actions ==
            (IF TriggerLoop(triggers.contact_gp_if, low, 1) THEN <<GP_ACTION>> ELSE <<>>)
            \o (IF TriggerLoop(triggers.call_999_if, low, 1)
                THEN <<CALL_999_ACTION>> ELSE <<>>)
    IN IF actions # <<>>
       THEN [fm EXCEPT !["immediate_actions_taken"] =
                AppendActions(fm["immediate_actions_taken"], actions)]
       ELSE fm

\* `v or alt`
Or(v, alt) == IF Truthy(v) THEN v ELSE alt

YesNo(v) == IF Truthy(v) THEN Str(<<"Yes">>) ELSE Str(<<"No">>)

Line(label, v) == [label |-> label, v |-> v]
BlankLine == Line("", Str(<<>>))

\* [l for l in lines if l is not None]: the empty string "" is not None
KeepNotNone(lines) == SelectSeq(lines, LAMBDA l : l # NONE)

\* _build_email: [form, email]; the email is its list of lines
_build_email(fm, file) ==
    LET notifications == load_notifications(file)
        to_addr == notifications.always_notify
        cc_map == notifications.cc_by_assessment
        ra_name == fm["if_yes_which_risk_assessment"]
        cc == IF Truthy(ra_name) /\ ra_name.t = "str" /\ Len(ra_name.s) = 1
                 /\ ra_name.s[1] \in DOMAIN cc_map
              THEN <<cc_map[ra_name.s[1]]>> ELSE <<>>
        f1 == IF ~Truthy(fm["who_was_notified"])
              THEN [fm EXCEPT !["who_was_notified"] = Str(<<to_addr>>)] ELSE fm
        unknown == Str(<<"Unknown">>)
        dash == Str(<<"-">>)
        lines ==
            << Line("To: ", Str(<<to_addr>>)),
               IF cc # <<>> THEN Line("CC: ", Str(cc)) ELSE BlankLine,
               Line("Subject: Incident report: ",
                    [t |-> "subject",
                     type |-> Or(f1["type_of_incident"], unknown),
                     name |-> Or(f1["service_user_name"], Str(<<"Service User">>))]),
               BlankLine,
               Line("Date/Time: ", Or(f1["date_time_of_incident"], Str(<<"None">>))),
               Line("Reported At: ", Or(f1["reported_at"], Str(<<"None">>))),
               Line("Service User: ", Or(f1["service_user_name"], unknown)),
               Line("Location: ", Or(f1["location"], unknown)),
               Line("Type: ", Or(f1["type_of_incident"], unknown)),
               BlankLine,
               Line("Description:", Str(<<>>)),
               Line("", Or(f1["description_of_the_incident"], dash)),
               BlankLine,
               Line("Immediate Actions Taken:", Str(<<>>)),
               Line("", Or(f1["immediate_actions_taken"], dash)),
               BlankLine,
               Line("First Aid: ", YesNo(f1["was_first_aid_administered"])),
               Line("Emergency Services: ",
                    YesNo(f1["were_emergency_services_contacted"])),
               Line("Who Was Notified: ", Or(f1["who_was_notified"], dash)),
               Line("Witnesses: ", Or(f1["witnesses"], dash)),
               BlankLine,
               Line("Next Steps:", Str(<<>>)),
               Line("", Or(f1["agreed_next_steps"], dash)),
               Line("Risk Assessment Needed: ", YesNo(f1["risk_assessment_needed"])),
               Line("If Yes, Which: ", Or(ra_name, dash)) >>
    IN [form |-> f1, email |-> KeepNotNone(lines)]

----------------------------------------------------------------------------
(* The call pipeline: main.analyze and the two analyze_transcript functions *)

NotCalled == [called |-> FALSE, raised |-> FALSE, facts |-> EmptyDict, evidence |-> <<>>]
Called(r) == [called |-> TRUE, raised |-> r.raised, facts |-> r.facts,
              evidence |-> r.evidence]
NoDtInfo == [called |-> FALSE, now |-> DT(0, 0, TRUE),
             info |-> DtResult(NONE, "none", "none", NONE)]
\* nothing loaded, nothing read, no previous call
NotLoaded == [called |-> FALSE]
Unread == [patterns |-> NONE, rules |-> NONE, triggers |-> NONE,
           notifications |-> NONE]
NoPrev == [called |-> FALSE]
Read(v) == [t |-> "read", v |-> v]

NoRaResult == [called |-> FALSE]

\* (mutant) a cache whose hit returns no rules
CachedRulesLost(cache, file) == IF cache = <<>> THEN _load_assessment_rules(file) ELSE <<>>

\* @lru_cache(maxsize=1): the first call loads the rules, later calls reuse them
CachedRules(cache, file) == IF cache = <<>> THEN _load_assessment_rules(file) ELSE cache[1]

\* the time the extraction step may take, in seconds
ClockSteps == {0, 45}

\* (mutant) the model's result counts as used whenever the call was made
LlmFactsUsedWheneverCalled(ret) == ret.called

\* `if facts: source = "llm"` and `if not facts:` after the guarded call: the
\* model's facts are used when the call returned and they are not empty
LlmFactsUsed(ret) == ret.called /\ ~ret.raised /\ ret.facts # EmptyDict

\* analyze_transcript, lines 262-286: anchor, LLM attempt, rules fallback; an
\* exception of the rules extractor is not caught and reaches main.analyze
SelectSourceDefault ==
    /\ pc = "request"
    /\ force_source # "llm"
    /\ anchor' = clock
    /\ \E d \in ClockSteps : clock' = MinusSeconds(clock, 0 - d)
    /\ \E ret \in {IF key_present
                   THEN Called(Call_extract_with_llm({"report_time_iso"},
                                                     key_present, resp))
                   ELSE NotCalled} :
          /\ llm_ret' = ret
          /\ IF LlmFactsUsed(ret)
             THEN /\ facts' = ret.facts
                  /\ evidence' = ret.evidence
                  /\ source' = "llm"
                  /\ pc' = "NORMALIZE"
                  /\ UNCHANGED <<rules_called, assess_cache, cfg_read>>
             ELSE \E rules \in {CachedRules(assess_cache, cfg_file)} :
                  \E r \in {extract_with_rules(transcript, cfg_file, rules)} :
                     /\ rules_called' = TRUE
                     /\ cfg_read' = [cfg_read EXCEPT
                            !.patterns = Read(load_incident_config_strict(cfg_file)),
                            !.rules = IF r.raised THEN @ ELSE Read(rules)]
                     /\ assess_cache' = IF r.raised THEN assess_cache ELSE <<rules>>
                     /\ source' = "rules"
                     /\ IF r.raised
                        THEN /\ pc' = "ERROR"
                             /\ facts' = EmptyDict
                             /\ evidence' = IF ret.raised THEN <<>> ELSE ret.evidence
                        ELSE /\ pc' = "NORMALIZE"
                             /\ facts' = r.facts
                             /\ evidence' = r.evidence
    /\ UNCHANGED <<transcript, force_source, key_present, resp, cfg_file, form,
                   draft_email, dt_info, ra_type, ra_result,
                   cfg_loaded, prev>>

\* analyze_transcript_llm_only, lines 314-319: an exception of the call is not
\* caught here and reaches main.analyze, which answers HTTP 500
SelectSourceLlmOnly ==
    /\ pc = "request"
    /\ force_source = "llm"
    /\ anchor' = clock
    /\ \E d \in ClockSteps : clock' = MinusSeconds(clock, 0 - d)
    /\ \E ret \in {Called(Call_extract_with_llm({"report_time_iso"},
                                                key_present, resp))} :
          /\ llm_ret' = ret
          /\ facts' = ret.facts
          /\ evidence' = ret.evidence
          /\ pc' = IF ret.raised THEN "ERROR" ELSE "NORMALIZE"
    /\ UNCHANGED <<transcript, force_source, key_present, resp, cfg_file,
                   rules_called, source, form, draft_email, dt_info,
                   ra_type, assess_cache, ra_result,
                   cfg_loaded, cfg_read, prev>>

\* form = _facts_to_form(facts)
Normalize ==
    /\ pc = "NORMALIZE"
    /\ form' = _facts_to_form(facts, clock)
    /\ pc' = "DATETIME_FALLBACK"
    /\ UNCHANGED <<transcript, force_source, key_present, resp, cfg_file, clock,
                   anchor, llm_ret, rules_called, facts, evidence, source,
                   draft_email, dt_info, ra_type, assess_cache, ra_result,
                   cfg_loaded, cfg_read, prev>>

\* _llm_datetime_fallback(form, transcript, evidence)
DatetimeFallback ==
    /\ pc = "DATETIME_FALLBACK"
    /\ \E r \in {_llm_datetime_fallback(form, transcript, evidence, clock)} :
          /\ form' = r.form
          /\ evidence' = r.evidence
          /\ dt_info' = IF Truthy(form["date_time_of_incident"]) THEN dt_info
                        ELSE [called |-> TRUE, now |-> clock,
                              info |-> extract_incident_datetime(transcript, clock)]
    /\ pc' = "DATETIME_SANITY"
    /\ UNCHANGED <<transcript, force_source, key_present, resp, cfg_file, clock,
                   anchor, llm_ret, rules_called, facts, source, draft_email,
                   ra_type, assess_cache, ra_result,
                   cfg_loaded, cfg_read, prev>>

\* _sanity_fix_incident_time(form, transcript, anchor, evidence)
DatetimeSanity ==
    /\ pc = "DATETIME_SANITY"
    /\ \E r \in {_sanity_fix_incident_time(form, transcript, anchor, evidence)} :
          /\ form' = r.form
          /\ evidence' = r.evidence
          /\ pc' = IF r.raised THEN "ERROR" ELSE "POLICY_TRIGGERS"
    /\ UNCHANGED <<transcript, force_source, key_present, resp, cfg_file, clock,
                   anchor, llm_ret, rules_called, facts, source, draft_email,
                   dt_info, ra_type, assess_cache, ra_result,
                   cfg_loaded, cfg_read, prev>>

\* _maybe_append_action(form, transcript)
PolicyTriggers ==
    /\ pc = "POLICY_TRIGGERS"
    /\ form' = _maybe_append_action(form, transcript, cfg_file)
    /\ pc' = "RENDER"
    /\ cfg_read' = [cfg_read EXCEPT !.triggers = Read(load_global_policy_triggers(cfg_file))]
    /\ UNCHANGED <<transcript, force_source, key_present, resp, cfg_file, clock,
                   anchor, llm_ret, rules_called, facts, evidence, source,
                   draft_email, dt_info, ra_type, assess_cache, ra_result,
                   cfg_loaded, prev>>

\* email = _build_email(form) and the return statement
Render ==
    /\ pc = "RENDER"
    /\ \E r \in {_build_email(form, cfg_file)} :
          /\ form' = r.form
          /\ draft_email' = r.email
    /\ source' = IF force_source = "llm"
                 THEN (IF facts # EmptyDict THEN "llm" ELSE "llm_empty")
                 ELSE source
    /\ pc' = "DONE"
    /\ cfg_read' = [cfg_read EXCEPT !.notifications = Read(load_notifications(cfg_file))]
    /\ UNCHANGED <<transcript, force_source, key_present, resp, cfg_file, clock,
                   anchor, llm_ret, rules_called, facts, evidence, dt_info,
                   ra_type, assess_cache, ra_result,
                   cfg_loaded, prev>>

----------------------------------------------------------------------------
(* Inputs *)

\* 2024-01-01T12:00:00 and 2024-03-10T23:59:30, Europe/London
Noon1Jan == DT(DaysFromCivil(2024, 1, 1), 12 * 3600, TRUE)
LateEvening == DT(DaysFromCivil(2024, 3, 10), 23 * 3600 + 59 * 60 + 30, TRUE)
Anchors == {Noon1Jan, LateEvening}

\* "15/03/2024", "31/02/2024", "31 Feb 2024", "1 March 2024"
SlashValid == DateNum("slash", 15, 3, 2024, 4)
SlashInvalid == DateNum("slash", 31, 2, 2024, 4)
MonInvalid == DateName("mon", 31, "feb", 2024, 4)
MonthValid == DateName("month", 1, "march", 2024, 4)
\* "25-09-25"
DashValid == DateNum("dash", 25, 9, 25, 2)

\* "2:30pm", "12 am", "13:45", "noon", "midnight"
HalfPastTwoPm == TimeTok("hm_ap", 2, 30, "pm")
TwelveAm == TimeTok("h_ap", 12, 0, "am")
QuarterToTwo == TimeTok("hm", 13, 45, "")
NoonTok == TimeTok("noon", 0, 0, "")
MidnightTok == TimeTok("midnight", 0, 0, "")

\* "5 minutes ago", "2 hours ago", "yesterday", "this evening", "last night"
FiveMinutesAgo == RelTok("minutes", 5, "")
TwoHoursAgo == RelTok("hours", 2, "")
Yesterday == RelTok("yesterday", 0, "")
ThisEvening == RelTok("daypart", 0, "evening")
LastNight == RelTok("last_night", 0, "")

DtVocab ==
    {SlashValid, SlashInvalid, MonInvalid, MonthValid, DashValid,
     HalfPastTwoPm, TwelveAm, QuarterToTwo, NoonTok, MidnightTok,
     FiveMinutesAgo, TwoHoursAgo, Yesterday, ThisEvening, LastNight,
     W("fell")}

\* a configuration file that exists and holds nothing
EmptyCfg ==
    [exists |-> TRUE, patterns |-> YMap(<<>>), locations |-> YList(<<>>),
     assessments |-> <<>>, contact_gp_if |-> <<>>, call_999_if |-> <<>>,
     always_notify |-> "Supervisor", cc_by_assessment |-> <<>>]

----------------------------------------------------------------------------
(* The datetime inference engine on its own *)

InitDt ==
    /\ cfg_loaded = NotLoaded
    /\ cfg_read = Unread
    /\ prev = NoPrev
    /\ pc = "dt_call"
    /\ transcript \in SeqsUpTo(DtVocab, MaxLenDt)
    /\ anchor \in Anchors
    /\ clock = anchor
    /\ force_source = "none"
    /\ key_present = FALSE
    /\ resp = [r |-> "timeout"]
    /\ cfg_file = EmptyCfg
    /\ llm_ret = NotCalled
    /\ rules_called = FALSE
    /\ facts = EmptyDict
    /\ evidence = <<>>
    /\ source = ""
    /\ form = EmptyDict
    /\ draft_email = <<>>
    /\ dt_info = NoDtInfo
    /\ ra_type = ""
    /\ assess_cache = <<>>
    /\ ra_result = NoRaResult

\* info = extract_incident_datetime(text, now=anchor)
ExtractIncidentDatetime ==
    /\ pc = "dt_call"
    /\ dt_info' = [called |-> TRUE, now |-> anchor,
                   info |-> extract_incident_datetime(transcript, anchor)]
    /\ pc' = "dt_done"
    /\ UNCHANGED <<transcript, force_source, key_present, resp, cfg_file, clock,
                   anchor, llm_ret, rules_called, facts, evidence, source, form,
                   draft_email, ra_type, assess_cache, ra_result,
                   cfg_loaded, cfg_read, prev>>

SpecDt == InitDt /\ [][ExtractIncidentDatetime]_vars

----------------------------------------------------------------------------
(* What the tokens of the vocabulary denote, stated without the engine *)

\* the calendar date a date token names, <<>> when it names none
CivilOf(tok) ==
    CASE tok = SlashValid -> <<2024, 3, 15>>
      [] tok = MonthValid -> <<2024, 3, 1>>
      [] tok = DashValid -> <<2025, 9, 25>>
      [] OTHER -> <<>>

\* the clock time a time token names
ClockOf(tok) ==
    CASE tok = HalfPastTwoPm -> <<14, 30>>
      [] tok = TwelveAm -> <<0, 0>>
      [] tok = QuarterToTwo -> <<13, 45>>
      [] tok = NoonTok -> <<12, 0>>
      [] OTHER -> <<0, 0>>

MinOf(S) == CHOOSE x \in S : \A y \in S : x <= y

\* positions of the transcript holding a date token written in one of the forms
DatePositions(forms) ==
    {i \in 1..Len(transcript) : transcript[i].k = "date" /\ transcript[i].f \in forms}

\* the written forms each of the four date regexes accepts, in list order
DateForms == <<{"slash"}, {"dash"}, {"mon", "month"}, {"month"}>>

\* the date regexes whose leftmost match names a calendar date
DateHits ==
    {p \in 1..4 : DatePositions(DateForms[p]) # {}
                  /\ CivilOf(transcript[MinOf(DatePositions(DateForms[p]))]) # <<>>}

\* position of the date the explicit pass takes, 0 if it takes none
MatchedDate ==
    IF DateHits = {} THEN 0 ELSE MinOf(DatePositions(DateForms[MinOf(DateHits)]))

TimePositions(f) ==
    {i \in 1..Len(transcript) : transcript[i].k = "time" /\ transcript[i].f = f}

TimeHits == {p \in 1..5 : TimePositions(TIME_PATTERNS[p]) # {}}

\* position of the time the explicit pass takes, 0 if it takes none
MatchedTime ==
    IF TimeHits = {} THEN 0 ELSE MinOf(TimePositions(TIME_PATTERNS[MinOf(TimeHits)]))

DayOfCivil(c) == DaysFromCivil(c[1], c[2], c[3])

\* C9 as claimed: whenever the text contains a valid explicit calendar date
\* or an explicit clock time, the result has method "explicit".
C9_AsClaimed ==
    pc = "dt_done" =>
        ((\E i \in 1..Len(transcript) :
             \/ transcript[i].k = "time"
             \/ transcript[i].k = "date" /\ CivilOf(transcript[i]) # <<>>)
         => dt_info.info.method = "explicit")

\* C9 (amended): whenever the leftmost match of some date regex is a valid
\* calendar date, or the text contains a clock time, the result has method
\* "explicit"; confidence is "high" iff both were matched and "medium" if
\* exactly one was; the date comes from the matched date, else from the
\* reference instant; the time comes from the matched time, else is 12:00;
\* the quote is the time match if any, otherwise the date match; a match that
\* is no calendar date counts as no match of its regex.
C9_ExplicitPass ==
    pc = "dt_done" =>
        LET info == dt_info.info
            d == MatchedDate
            t == MatchedTime
        IN IF d # 0 \/ t # 0
           THEN /\ info.method = "explicit"
                /\ info.confidence = (IF d # 0 /\ t # 0 THEN "high" ELSE "medium")
                /\ info.value.t = "iso"
                /\ info.value.day = (IF d # 0 THEN DayOfCivil(CivilOf(transcript[d]))
                                     ELSE anchor.day)
                /\ info.value.sec = (IF t # 0
                                     THEN ClockOf(transcript[t])[1] * 3600
                                          + ClockOf(transcript[t])[2] * 60
                                     ELSE 12 * 3600)
                /\ info.evidence_quote = Txt(<<transcript[IF t # 0 THEN t ELSE d]>>)
           ELSE info.method # "explicit"

\* C9 witness: an invalid date precedes, a date of another form and a time are
\* matched, and the result is explicit with high confidence
C9_Witness ==
    /\ pc = "dt_done"
    /\ Len(transcript) = 3
    /\ transcript[1] = MonInvalid
    /\ MatchedDate = 2
    /\ MatchedTime = 3
    /\ dt_info.info.confidence = "high"

\* seconds since the epoch of the reference instant
NowSeconds == anchor.day * 86400 + anchor.sec

\* the instant a relative phrase denotes at the reference instant, in seconds
\* since the epoch
RelativeSeconds(tok) ==
    CASE tok.f = "minutes" -> ((NowSeconds - tok.n * 60) \div 60) * 60
      [] tok.f = "hours" -> ((NowSeconds - tok.n * 3600) \div 60) * 60
      [] tok.f = "yesterday" -> (anchor.day - 1) * 86400 + 12 * 3600
      [] tok.f = "last_night" -> (anchor.day - 1) * 86400 + 22 * 3600
      [] tok.part = "morning" -> anchor.day * 86400 + 9 * 3600
      [] tok.part = "afternoon" -> anchor.day * 86400 + 15 * 3600
      [] tok.part = "evening" -> anchor.day * 86400 + 19 * 3600
      [] OTHER -> anchor.day * 86400 + 22 * 3600

RelPositions(f) ==
    {i \in 1..Len(transcript) : transcript[i].k = "rel" /\ transcript[i].f = f}

\* the fixed priority order of the relative phrases
RelPriority == <<"minutes", "hours", "yesterday", "daypart", "last_night">>

RelHits == {p \in 1..5 : RelPositions(RelPriority[p]) # {}}

\* C10: a "relative" result is returned only when the explicit pass matched
\* neither a date nor a time; then the phrase highest in the priority order
\* decides the value wherever it stands, with confidence "low"; "2 hours ago"
\* at 2024-01-01T12:00:00 gives 2024-01-01T10:00:00; when no pass matches the
\* result is {value: null, confidence: "none", method: "none"}.
C10_RelativePass ==
    pc = "dt_done" =>
        LET info == dt_info.info
        IN /\ info.method = "relative" => MatchedDate = 0 /\ MatchedTime = 0
           /\ (MatchedDate = 0 /\ MatchedTime = 0 /\ RelHits # {}) =>
                LET tok == transcript[MinOf(RelPositions(RelPriority[MinOf(RelHits)]))]
                IN /\ info.method = "relative"
                   /\ info.confidence = "low"
                   /\ info.value.t = "iso"
                   /\ info.value.day * 86400 + info.value.sec = RelativeSeconds(tok)
                   /\ info.evidence_quote = Txt(<<tok>>)
           /\ (MatchedDate = 0 /\ MatchedTime = 0 /\ RelHits = {}) =>
                info = DtResult(NONE, "none", "none", NONE)
           /\ (transcript = <<TwoHoursAgo>> /\ anchor = Noon1Jan) =>
                info.value = Iso(DaysFromCivil(2024, 1, 1), 10 * 3600, "+00:00")

\* C10 witness: a lower-priority phrase stands before a higher-priority one and
\* the higher-priority one decides
C10_Witness ==
    /\ pc = "dt_done"
    /\ Len(transcript) = 3
    /\ transcript[1] = LastNight
    /\ transcript[2] = SlashInvalid
    /\ transcript[3] = TwoHoursAgo
    /\ dt_info.info.method = "relative"
    /\ dt_info.info.evidence_quote = Txt(<<TwoHoursAgo>>)

----------------------------------------------------------------------------
(* The assessment matcher on its own *)

MovingHandling ==
    [name |-> "moving and handling risk assessment review",
     incident_types |-> {"fall"},
     patterns |-> <<Lit(<<"second", "time">>)>>]
Medication ==
    [name |-> "medication management review",
     incident_types |-> {},
     patterns |-> <<BadRe, Lit(<<"fell">>)>>]
Equipment ==
    [name |-> "moving & handling / equipment safety review",
     incident_types |-> {"fall", "equipment_failure"},
     patterns |-> <<Lit(<<"hoist">>), Lit(<<"fell">>)>>]
Nameless ==
    [name |-> "", incident_types |-> {}, patterns |-> <<Lit(<<"fell">>)>>]

RulePool == {MovingHandling, Medication, Equipment, Nameless}
RaVocab == {W("Fell"), W("second"), W("time"), W("hoist")}

\* rs with the rules at positions i and j exchanged
Swap(rs, i, j) ==
    [k \in 1..Len(rs) |-> IF k = i THEN rs[j] ELSE IF k = j THEN rs[i] ELSE rs[k]]

Pairs(n) == {pr \in (1..n) \X (1..n) : pr[1] < pr[2]}

InitRa ==
    /\ cfg_loaded = NotLoaded
    /\ cfg_read = Unread
    /\ prev = NoPrev
    /\ pc = "ra_call"
    /\ transcript \in SeqsUpTo(RaVocab, MaxLenRa)
    /\ \E rs \in SeqsUpTo(RulePool, MaxRules) :
          cfg_file = [EmptyCfg EXCEPT !.assessments = rs]
    /\ ra_type \in {"", "fall", "equipment_failure"}
    /\ anchor = Noon1Jan
    /\ clock = anchor
    /\ force_source = "none"
    /\ key_present = FALSE
    /\ resp = [r |-> "timeout"]
    /\ llm_ret = NotCalled
    /\ rules_called = FALSE
    /\ facts = EmptyDict
    /\ evidence = <<>>
    /\ source = ""
    /\ form = EmptyDict
    /\ draft_email = <<>>
    /\ dt_info = NoDtInfo
    /\ assess_cache = <<>>
    /\ ra_result = NoRaResult

\* assessment, ra_quote = which_risk_assessment(text, incident_type), on the
\* loaded rules and on the loaded rules with two of them exchanged
WhichRiskAssessment ==
    /\ pc = "ra_call"
    /\ LET rules == CachedRules(assess_cache, cfg_file)
           r == which_risk_assessment(rules, transcript, ra_type)
       IN /\ assess_cache' = <<rules>>
          /\ ra_result' =
                [called |-> TRUE, name |-> r.name, quote |-> r.quote,
                 swapped |-> [pr \in Pairs(Len(rules)) |->
                                which_risk_assessment(Swap(rules, pr[1], pr[2]),
                                                      transcript, ra_type).name]]
    /\ pc' = "ra_done"
    /\ UNCHANGED <<transcript, force_source, key_present, resp, cfg_file, clock,
                   anchor, llm_ret, rules_called, facts, evidence, source, form,
                   draft_email, dt_info, ra_type,
                   cfg_loaded, cfg_read, prev>>

SpecRa == InitRa /\ [][WhichRiskAssessment]_vars

\* the phrase ws occurs in the transcript, letter case ignored
Occurs(ws) ==
    \E i \in 1..(Len(transcript) + 1) :
        /\ i + Len(ws) - 1 <= Len(transcript)
        /\ \A j \in 1..Len(ws) :
              /\ transcript[i + j - 1].k = "w"
              /\ LowerW(transcript[i + j - 1].s) = LowerW(ws[j])

\* the rule is not excluded by its allow-list and one of its patterns matches
RuleWins(rule) ==
    /\ rule.incident_types = {} \/ ra_type \in rule.incident_types
    /\ \E p \in 1..Len(rule.patterns) :
          rule.patterns[p].re = "lit" /\ Occurs(rule.patterns[p].ws)

\* C8: the returned assessment is the name of the earliest loaded rule that
\* is not excluded by its allow-list and has a matching pattern; (None, None)
\* is returned only when there is none; exchanging the winning rule with a
\* later applicable matching rule of another name changes the result.
C8_FirstMatchWins ==
    pc = "ra_done" =>
        LET rules == assess_cache[1]
            winners == {r \in 1..Len(rules) : RuleWins(rules[r])}
        IN /\ winners = {} => ra_result.name = NONE /\ ra_result.quote = NONE
           /\ winners # {} => ra_result.name = Str(<<rules[MinOf(winners)].name>>)
           /\ \A pr \in Pairs(Len(rules)) :
                 (/\ pr[1] = MinOf(winners \cup {pr[1]})
                  /\ pr[1] \in winners /\ pr[2] \in winners
                  /\ rules[pr[1]].name # rules[pr[2]].name)
                 => /\ ra_result.swapped[pr] = Str(<<rules[pr[2]].name>>)
                    /\ ra_result.swapped[pr] # ra_result.name

\* C8 witness: three loaded rules, the first excluded by its allow-list, the
\* second and third both matching; the second is returned, and exchanging the
\* two returns the third
C8_Witness ==
    /\ pc = "ra_done"
    /\ assess_cache[1] = <<MovingHandling, Medication, Equipment>>
    /\ ra_type = "equipment_failure"
    /\ transcript = <<W("Fell"), W("hoist")>>
    /\ ra_result.name = Str(<<"medication management review">>)
    /\ ra_result.swapped[<<2, 3>>] = Str(<<"moving & handling / equipment safety review">>)

----------------------------------------------------------------------------
(* Inputs of the call pipeline *)

\* "It's Greg Jones, he fell in the living room, second time this week."
ExampleText ==
    <<W("It's"), W("Greg"), W("Jones"), W("he"), W("fell"), W("in"), W("the"),
      W("living"), W("room"), W("second"), W("time"), W("this"), W("week")>>

\* "Hi it's Greg Jones, he fell in the living room"
LowerCaseIntro ==
    <<W("Hi"), W("it's"), W("Greg"), W("Jones"), W("he"), W("fell"), W("in"),
      W("the"), W("living"), W("room")>>

RecurringFalls ==
    [name |-> "moving and handling risk assessment review",
     incident_types |-> {"fall"},
     patterns |-> <<Lit(<<"second", "time", "this", "week">>)>>]

\* a fall pattern matching "fell", the location "living room", a moving and
\* handling rule matching "second time this week", and the two trigger lists
ExampleCfg ==
    [exists |-> TRUE,
     patterns |-> YMap(<<[type |-> "fall", pats |-> <<Lit(<<"fell">>)>>]>>),
     locations |-> YList(<< <<"living", "room">> >>),
     assessments |-> <<RecurringFalls>>,
     contact_gp_if |-> <<BadRe, Lit(<<"fever">>)>>,
     call_999_if |-> <<Lit(<<"not", "breathing">>), Lit(<<"unconscious">>)>>,
     always_notify |-> "Supervisor",
     cc_by_assessment |->
        [n \in {"moving and handling risk assessment review"} |-> "Risk Assessor"]]

\* the same with a pattern of the fall type that does not compile
BadPatternCfg ==
    [ExampleCfg EXCEPT
        !.patterns = YMap(<<[type |-> "fall", pats |-> <<BadRe, Lit(<<"fell">>)>>]>>)]

Configs == {ExampleCfg, BadPatternCfg, EmptyCfg}

\* answers of the remote model service
Timeout == [r |-> "timeout"]
NonJson == [r |-> "non_json"]
NotAnObject == [r |-> "array"]
Obj(data) == [r |-> "object", data |-> data]

\* {"incident_type": "fall", "service_user_name": "Greg Jones", "evidence": [...]}
GoodData ==
    [k \in {"incident_type", "service_user_name", "evidence"} |->
        CASE k = "incident_type" -> Str(<<"fall">>)
          [] k = "service_user_name" -> Str(<<"Greg Jones">>)
          [] OTHER -> YList(<<EvItem(TRUE, TRUE), EvItem(TRUE, FALSE)>>)]

Answers == {Timeout, NotAnObject, Obj(GoodData)}

OrchVocab == {W("fell"), W("unconscious"), W("fever"), TwoHoursAgo, SlashValid}

OrchTexts == {ExampleText, LowerCaseIntro} \cup SeqsUpTo(OrchVocab, MaxLenOrch)

----------------------------------------------------------------------------
(* One call of POST /analyze *)

Init ==
    /\ cfg_loaded = NotLoaded
    /\ cfg_read = Unread
    /\ prev = NoPrev
    /\ pc = "request"
    /\ transcript \in OrchTexts
    /\ force_source \in {"none", "llm", "rules"}
    /\ key_present \in BOOLEAN
    /\ resp \in Answers
    /\ cfg_file \in Configs
    /\ clock \in Anchors
    /\ anchor = clock
    /\ llm_ret = NotCalled
    /\ rules_called = FALSE
    /\ facts = EmptyDict
    /\ evidence = <<>>
    /\ source = ""
    /\ form = EmptyDict
    /\ draft_email = <<>>
    /\ dt_info = NoDtInfo
    /\ ra_type = ""
    /\ assess_cache = <<>>
    /\ ra_result = NoRaResult

Next ==
    \/ SelectSourceDefault
    \/ SelectSourceLlmOnly
    \/ Normalize
    \/ DatetimeFallback
    \/ DatetimeSanity
    \/ PolicyTriggers
    \/ Render

Spec == Init /\ [][Next]_vars

----------------------------------------------------------------------------
(* The stages after extraction, entered with what the LLM extractor's body
   returns for the objects the remote model can answer with *)

\* values the remote model can give each key
FarNaive == Iso(DaysFromCivil(2020, 1, 1), 10 * 3600, "")
FarAware == Iso(DaysFromCivil(2020, 1, 1), 10 * 3600, "Z")
ThreeDaysBefore == Iso(LateEvening.day - 3, 9 * 3600, "+00:00")
SevenDaysBefore == Iso(LateEvening.day - 7, LateEvening.sec, "+00:00")
OverSevenDaysBefore == Iso(LateEvening.day - 7, LateEvening.sec - 1, "+00:00")

LlmValues(k) ==
    CASE k = "date_time_of_incident" ->
           {NONE, Str(<<"last tuesday">>), FarNaive, FarAware, ThreeDaysBefore,
            SevenDaysBefore, OverSevenDaysBefore}
      [] k = "immediate_actions_taken" ->
           {NONE, Str(<<"Gave water">>), Str(<<CALL_999_ACTION>>)}
      [] k = "incident_type" -> {Str(<<"fall">>), Str(<<"alien abduction">>)}
      [] k = "if_yes_which_risk_assessment" ->
           {Str(<<"moving and handling risk assessment review">>),
            Str(<<"general review">>)}
      [] k = "risk_assessment_needed" -> {Bool(TRUE), Bool(FALSE)}
      [] k = "evidence" ->
           {YList(<<EvItem(TRUE, TRUE), EvItem(TRUE, FALSE)>>), NONE,
            Str(<<"n/a">>)}
      [] OTHER -> {Str(<<"as told">>)}

LlmKeys == FactKeys \cup {"evidence"}

\* the JSON objects holding the keys K
RECURSIVE ObjectsOver(_)
ObjectsOver(K) ==
    IF K = {} THEN {EmptyDict}
    ELSE LET k == CHOOSE x \in K : TRUE
         IN {Put(o, k, v) : o \in ObjectsOver(K \ {k}), v \in LlmValues(k)}

LlmObjects ==
    UNION {ObjectsOver(K) : K \in {X \in SUBSET LlmKeys : Cardinality(X) <= MaxKeys}}

\* "99 hours ago", the farthest instant a relative expression can name
NinetyNineHoursAgo == RelTok("hours", 99, "")

StageVocab == {SlashValid, TwoHoursAgo, NinetyNineHoursAgo, W("fever")}

StageTexts ==
    {<<W("unconscious")>>, <<W("Fever"), W("unconscious")>>}
        \cup SeqsUpTo(StageVocab, MaxLenStage)

InitStages ==
    /\ cfg_loaded = NotLoaded
    /\ cfg_read = Unread
    /\ prev = NoPrev
    /\ pc = "NORMALIZE"
    /\ transcript \in StageTexts
    /\ force_source \in {"none", "llm"}
    /\ key_present = TRUE
    /\ cfg_file = ExampleCfg
    /\ anchor = LateEvening
    /\ clock = MinusSeconds(LateEvening, 0 - 45)
    /\ resp \in {Timeout, NonJson, NotAnObject} \cup {Obj(data) : data \in LlmObjects}
    /\ \E r \in {extract_with_llm(TRUE, resp)} :
          /\ llm_ret = Called(r)
          /\ facts = r.facts
          /\ evidence = r.evidence
          /\ force_source # "llm" => r.facts # EmptyDict
    /\ source = IF force_source = "llm" THEN "" ELSE "llm"
    /\ rules_called = FALSE
    /\ form = EmptyDict
    /\ draft_email = <<>>
    /\ dt_info = NoDtInfo
    /\ ra_type = ""
    /\ assess_cache = <<>>
    /\ ra_result = NoRaResult

NextStages ==
    \/ Normalize
    \/ DatetimeFallback
    \/ DatetimeSanity
    \/ PolicyTriggers
    \/ Render

SpecStages == InitStages /\ [][NextStages]_vars

----------------------------------------------------------------------------
(* Source selection and the form's keys *)

AfterSelection ==
    {"NORMALIZE", "DATETIME_FALLBACK", "DATETIME_SANITY", "POLICY_TRIGGERS",
     "RENDER", "DONE"}

LlmReturnedFacts ==
    llm_ret.called /\ ~llm_ret.raised /\ llm_ret.facts # EmptyDict

RuleFacts ==
    extract_with_rules(transcript, cfg_file, _load_assessment_rules(cfg_file)).facts

\* C1: in the default operation (no "llm" override) the source of an analysis
\* is "llm" exactly when the credential is set and the LLM extractor returned
\* non-empty facts, and then the form is built from those facts; in every
\* other case the source is "rules" and the form is built from the rule
\* extractor's facts.
C1_SourceSelection ==
    (force_source # "llm" /\ pc \in AfterSelection) =>
        /\ (source = "llm") <=> (key_present /\ LlmReturnedFacts)
        /\ source = "llm" => facts = llm_ret.facts
        /\ source # "llm" =>
              /\ source = "rules"
              /\ rules_called
              /\ facts = RuleFacts
        /\ pc = "DATETIME_FALLBACK" =>
              \A k \in FormKeys \ {"reported_at"} :
                 mapping(k) \in DOMAIN facts => form[k] = facts[mapping(k)]

\* the credential is set, the call of the LLM extractor threw, and the analysis
\* completed from the rule extractor's facts
C1_Witness ==
    /\ pc = "DONE"
    /\ force_source = "none"
    /\ key_present
    /\ llm_ret.called /\ llm_ret.raised
    /\ source = "rules"
    /\ form["type_of_incident"] = Str(<<"fall">>)

\* C2: with the "llm" source forced, the rule extractor is never invoked and
\* the operation returns a complete result whose source is "llm" when the LLM
\* extractor produced facts and "llm_empty" when it produced nothing.
C2_ForcedLlm ==
    (force_source = "llm" /\ pc # "request") =>
        /\ ~rules_called
        /\ pc # "ERROR"
        /\ pc = "DONE" =>
              /\ source = (IF facts # EmptyDict THEN "llm" ELSE "llm_empty")
              /\ DOMAIN form = FormKeys
              /\ draft_email # <<>>

\* the defaults of the form, as the specification lists them
DefaultOf(k) ==
    CASE k = "description_of_the_incident" -> Str(<<>>)
      [] k \in {"was_first_aid_administered", "were_emergency_services_contacted",
                "risk_assessment_needed"} -> Bool(FALSE)
      [] OTHER -> NONE

\* C3: whatever subset of the fact keys the extractor returned, the form holds
\* all 14 keys after NORMALIZE and after every later stage, and right after
\* NORMALIZE a key the extractor did not supply holds its default.
C3_AllKeys ==
    /\ pc \notin {"request", "NORMALIZE"} =>
          DOMAIN form = FormKeys /\ Cardinality(FormKeys) = 14
    /\ pc = "DATETIME_FALLBACK" =>
          \A k \in FormKeys \ {"reported_at"} :
             mapping(k) \notin DOMAIN facts => form[k] = DefaultOf(k)

\* a finished analysis whose extractor supplied two of the thirteen keys
C3_Witness ==
    /\ pc = "DONE"
    /\ DOMAIN facts = {"incident_type", "risk_assessment_needed"}
    /\ DOMAIN form = FormKeys
    /\ form["location"] = NONE

\* C4: a call of the LLM extractor, with a transcript and an optional reference
\* timestamp, never propagates an exception, and an analysis whose LLM call
\* failed still ends in a form rather than an error.
C4_NeverPropagates ==
    llm_ret.called =>
        /\ ~llm_ret.raised
        /\ force_source = "llm" => pc # "ERROR"

----------------------------------------------------------------------------
(* The datetime sanity stage and the policy triggers *)

HasDateToken == \E i \in 1..Len(transcript) : transcript[i].k = "date"

SanityDone == pc \in {"POLICY_TRIGGERS", "RENDER", "DONE", "ERROR"}

\* the value the extractor put in date_time_of_incident; a truthy value is
\* what DATETIME_SANITY finds in the form
ExtractedDt == Get(facts, "date_time_of_incident")

SecondsFromAnchor(v) == Abs((v.day - anchor.day) * 86400 + v.sec - anchor.sec)

FarFromAnchor(v) == SecondsFromAnchor(v) > 7 * 24 * 3600

Reinferred == extract_incident_datetime(transcript, anchor).value

\* C5: for a form whose date_time_of_incident is a parseable ISO-8601 value,
\* (a) with no date token in the transcript and the value more than 7 days
\* from the anchor, the stage leaves the re-inferred value, or null when
\* nothing is inferred; (b) with a date token the value is left unchanged.
C5_Sanity ==
    (ExtractedDt.t = "iso" /\ SanityDone) =>
        /\ (~HasDateToken /\ FarFromAnchor(ExtractedDt)) =>
              /\ pc # "ERROR"
              /\ form["date_time_of_incident"] = Reinferred
        /\ HasDateToken =>
              /\ pc # "ERROR"
              /\ form["date_time_of_incident"] = ExtractedDt

Segments(v) == IF v.t = "str" THEN v.s ELSE <<>>

TriggerMatches(pats) ==
    \E p \in 1..Len(pats) : pats[p].re = "lit" /\ Occurs(pats[p].ws)

\* C6: the POLICY_TRIGGERS stage appends the contact-GP advisory once exactly
\* when a contact_gp_if pattern matches the transcript and the 999 advisory
\* once exactly when a call_999_if pattern matches, each list on its own, after
\* the actions already there, which are kept; nothing else in the form changes.
C6_PolicyTriggers ==
    [][pc = "POLICY_TRIGGERS" =>
         LET added ==
                 (IF TriggerMatches(cfg_file.contact_gp_if)
                  THEN <<GP_ACTION>> ELSE <<>>)
                 \o (IF TriggerMatches(cfg_file.call_999_if)
                     THEN <<CALL_999_ACTION>> ELSE <<>>)
         IN /\ Segments(form'["immediate_actions_taken"]) =
                   Segments(form["immediate_actions_taken"]) \o added
            /\ added = <<>> => form' = form
            /\ \A k \in FormKeys \ {"immediate_actions_taken"} : form'[k] = form[k]
    ]_vars

\* both advisories appended, in a forced-"llm" analysis, to the action the
\* extractor reported
C6_Witness ==
    /\ pc = "RENDER"
    /\ force_source = "llm"
    /\ form["immediate_actions_taken"] =
          Str(<<"Gave water", GP_ACTION, CALL_999_ACTION>>)

----------------------------------------------------------------------------
(* The end-to-end example *)

\* C7: with no credential and the example configuration, the example
\* transcript yields the name "Greg Jones", the type "fall", the location
\* "living room", and the moving and handling assessment as needed.
C7_Example ==
    (/\ pc = "DONE"
     /\ transcript = ExampleText
     /\ cfg_file = ExampleCfg
     /\ ~key_present
     /\ force_source # "llm") =>
        /\ form["service_user_name"] = Str(<<"Greg Jones">>)
        /\ form["type_of_incident"] = Str(<<"fall">>)
        /\ form["location"] = Str(<<"living room">>)
        /\ form["risk_assessment_needed"] = Bool(TRUE)
        /\ form["if_yes_which_risk_assessment"] =
              Str(<<"moving and handling risk assessment review">>)

----------------------------------------------------------------------------
(* The draft email *)

\* a CC recipient applies: an assessment is selected and the notification
\* policy names a recipient for it
CcApplies ==
    LET ra_name == form["if_yes_which_risk_assessment"]
    IN /\ ra_name.t = "str"
       /\ Len(ra_name.s) = 1
       /\ ra_name.s[1] \in DOMAIN cfg_file.cc_by_assessment

\* C11: in the rendered email an empty optional line is omitted: when no CC
\* recipient applies there is no CC line and no empty line in its place, so
\* the Subject line immediately follows the To line.
C11_EmptyLinesOmitted ==
    (pc = "DONE" /\ ~CcApplies) =>
        /\ draft_email[1].label = "To: "
        /\ draft_email[2].label = "Subject: Incident report: "

----------------------------------------------------------------------------
(* Invalid regular expressions in the configuration *)

\* the configuration holds an invalid regex among the incident-type patterns
BadTypePattern(file) ==
    \E i \in 1..Len(file.patterns.items) :
        \E j \in 1..Len(file.patterns.items[i].pats) :
            file.patterns.items[i].pats[j] = BadRe

\* C12: one invalid regex in the configuration is never fatal to an analysis:
\* with an invalid incident-type pattern the rule extractor still returns, the
\* bad pattern is skipped and the rest of the list is evaluated (the type is
\* found by the valid pattern that follows the invalid one).
C12_InvalidRegexNeverFatal ==
    (rules_called /\ BadTypePattern(cfg_file)) =>
        /\ pc # "ERROR"
        /\ Occurs(<<"fell">>) => Get(facts, "incident_type") = Str(<<"fall">>)

----------------------------------------------------------------------------
(* The configuration loader on its own *)

\* values the yaml file can hold under `patterns` and under `locations`:
\* absent, conforming (empty or not), and non-conforming (empty/falsy or not)
FallPatterns == YMap(<<[type |-> "fall", pats |-> <<Lit(<<"fell">>)>>]>>)
PatternShapes ==
    {NONE, FallPatterns, YMap(<<>>), YList(<<>>), YList(FallPatterns.items),
     Str(<<>>), Str(<<"fell">>), Int_(0), Int_(1), Bool(FALSE)}
LocationPool == {<<"Living", "room">>, <<"kitchen">>}
LocationShapes ==
    {NONE, YMap(<<<<"kitchen">>>>), YMap(<<>>), Str(<<>>), Str(<<"kitchen">>),
     Int_(0), Bool(FALSE)}
    \cup {YList(l) : l \in SeqsUpTo(LocationPool, MaxLocs)}

InitCfg ==
    /\ cfg_loaded = NotLoaded
    /\ cfg_read = Unread
    /\ prev = NoPrev
    /\ pc = "load"
    /\ \E e \in BOOLEAN, ps \in PatternShapes, ls \in LocationShapes :
          cfg_file = [EmptyCfg EXCEPT !.exists = e, !.patterns = ps,
                                      !.locations = ls]
    /\ transcript = <<>>
    /\ force_source = "none"
    /\ key_present = FALSE
    /\ resp = Timeout
    /\ clock = Noon1Jan
    /\ anchor = Noon1Jan
    /\ llm_ret = NotCalled
    /\ rules_called = FALSE
    /\ facts = EmptyDict
    /\ evidence = <<>>
    /\ source = ""
    /\ form = EmptyDict
    /\ draft_email = <<>>
    /\ dt_info = NoDtInfo
    /\ ra_type = ""
    /\ assess_cache = <<>>
    /\ ra_result = NoRaResult

\* patterns, locations = load_incident_config_strict()
LoadIncidentConfigStrict ==
    /\ pc = "load"
    /\ cfg_loaded' = [called |-> TRUE, ret |-> load_incident_config_strict(cfg_file)]
    /\ pc' = "loaded"
    /\ UNCHANGED <<transcript, force_source, key_present, resp, cfg_file, clock,
                   anchor, llm_ret, rules_called, facts, evidence, source, form,
                   draft_email, dt_info, ra_type, assess_cache, ra_result,
                   cfg_read, prev>>

SpecCfg == InitCfg /\ [][LoadIncidentConfigStrict]_vars

\* the value is present in the file and is not of the required yaml type
NonConforming(v, type) == v.t \notin {"none", type}

WellShaped(file) ==
    file.exists /\ file.patterns.t = "map" /\ file.locations.t = "list"

\* the locations returned are those of the file, lowercased, in file order
LowercasedInOrder(out, items) ==
    /\ Len(out) = Len(items)
    /\ \A i \in 1..Len(items) :
          /\ Len(out[i]) = Len(items[i])
          /\ \A j \in 1..Len(items[i]) :
                /\ out[i][j] = LowerW(out[i][j])
                /\ out[i][j] = LowerW(items[i][j])

\* C13: the load fails when the resource is missing or its `patterns` value is
\* not a mapping or its `locations` value is not a list, whatever the
\* non-conforming value, empty and falsy ones included; for a well-shaped
\* resource it succeeds and returns every location lowercased in file order.
C13_LoadContract ==
    pc = "loaded" =>
        /\ (\/ ~cfg_file.exists
            \/ NonConforming(cfg_file.patterns, "map")
            \/ NonConforming(cfg_file.locations, "list")) => cfg_loaded.ret.raised
        /\ WellShaped(cfg_file) =>
              /\ ~cfg_loaded.ret.raised
              /\ LowercasedInOrder(cfg_loaded.ret.locations, cfg_file.locations.items)

----------------------------------------------------------------------------
(* Clamping of the LLM extractor's answer *)

\* the answer was an object and the extractor's body returned facts from it
LlmAnswered == llm_ret.called /\ resp.r = "object" /\ llm_ret.facts # EmptyDict

\* the evidence items of the answer
AnswerEvidence ==
    IF "evidence" \in DOMAIN resp.data /\ resp.data["evidence"].t = "list"
    THEN resp.data["evidence"].items ELSE <<>>

\* C14: in what the LLM extractor returns, incident_type is one of the twelve
\* allowed types or null/absent, if_yes_which_risk_assessment is one of the six
\* allowed reviews or null/absent, risk_assessment_needed, when the answer
\* omitted it, tells whether the clamped assessment is non-null, and every
\* evidence entry has the field and the quote of an answer item that carried
\* both, with null start_idx and end_idx.
C14_Clamped ==
    llm_ret.called =>
        /\ InAllowed(Get(llm_ret.facts, "incident_type"), ALLOWED_INCIDENT_TYPES)
        /\ InAllowed(Get(llm_ret.facts, "if_yes_which_risk_assessment"),
                     ALLOWED_RISK_ASSESSMENTS)
        /\ (LlmAnswered /\ "risk_assessment_needed" \notin DOMAIN resp.data) =>
              llm_ret.facts["risk_assessment_needed"] =
                 Bool(Get(llm_ret.facts, "if_yes_which_risk_assessment") # NONE)
        /\ \A i \in 1..Len(llm_ret.evidence) :
              /\ llm_ret.evidence[i].start_idx = NONE
              /\ llm_ret.evidence[i].end_idx = NONE
              /\ \E j \in 1..Len(AnswerEvidence) :
                    /\ AnswerEvidence[j].t = "dict"
                    /\ AnswerEvidence[j].has_field /\ AnswerEvidence[j].has_quote
                    /\ AnswerEvidence[j].field = llm_ret.evidence[i].field
                    /\ AnswerEvidence[j].quote = llm_ret.evidence[i].quote

\* the answer named a review outside the allow-list and omitted the flag: the
\* name is cleared and the flag is false
C14_Witness ==
    /\ LlmAnswered
    /\ DOMAIN resp.data = {"if_yes_which_risk_assessment"}
    /\ resp.data["if_yes_which_risk_assessment"] = Str(<<"general review">>)
    /\ llm_ret.facts["if_yes_which_risk_assessment"] = NONE
    /\ llm_ret.facts["risk_assessment_needed"] = Bool(FALSE)

----------------------------------------------------------------------------
(* Two calls of one process, the configuration file replaceable at any time *)

\* another version of the file: other patterns, locations, rules, triggers
\* and recipients
FeverRule ==
    [name |-> "infection control review",
     incident_types |-> {},
     patterns |-> <<Lit(<<"fever">>)>>]

AltCfg ==
    [exists |-> TRUE,
     patterns |-> YMap(<<[type |-> "medical_emergency", pats |-> <<Lit(<<"fever">>)>>]>>),
     locations |-> YList(<< <<"room">> >>),
     assessments |-> <<FeverRule>>,
     contact_gp_if |-> <<Lit(<<"fell">>)>>,
     call_999_if |-> <<Lit(<<"fever">>)>>,
     always_notify |-> "Manager",
     cc_by_assessment |-> [n \in {"infection control review"} |-> "Nurse"]]

Versions == {ExampleCfg, AltCfg, BadPatternCfg}

RunTexts == {ExampleText, <<W("fever")>>, <<W("fell"), TwoHoursAgo>>}

InitRuns ==
    /\ cfg_loaded = NotLoaded
    /\ cfg_read = Unread
    /\ prev = NoPrev
    /\ pc = "request"
    /\ transcript \in RunTexts
    /\ force_source \in {"none", "rules"}
    /\ key_present = FALSE
    /\ resp = Timeout
    /\ cfg_file \in Versions
    /\ clock \in Anchors
    /\ anchor = clock
    /\ llm_ret = NotCalled
    /\ rules_called = FALSE
    /\ facts = EmptyDict
    /\ evidence = <<>>
    /\ source = ""
    /\ form = EmptyDict
    /\ draft_email = <<>>
    /\ dt_info = NoDtInfo
    /\ ra_type = ""
    /\ assess_cache = <<>>
    /\ ra_result = NoRaResult

\* main.analyze is called again with the same request: the response of the
\* finished call is kept for comparison, the process (its lru_cache, its clock)
\* goes on
NextRequest ==
    /\ pc \in {"DONE", "ERROR"}
    /\ prev = NoPrev
    /\ prev' = [called |-> TRUE, pc |-> pc, facts |-> facts, evidence |-> evidence,
                source |-> source, form |-> form, draft_email |-> draft_email,
                cfg_read |-> cfg_read]
    /\ pc' = "request"
    /\ llm_ret' = NotCalled
    /\ rules_called' = FALSE
    /\ facts' = EmptyDict
    /\ evidence' = <<>>
    /\ source' = ""
    /\ form' = EmptyDict
    /\ draft_email' = <<>>
    /\ dt_info' = NoDtInfo
    /\ cfg_read' = Unread
    /\ UNCHANGED <<transcript, force_source, key_present, resp, cfg_file, clock,
                   anchor, ra_type, assess_cache, ra_result, cfg_loaded>>

\* incident_patterns.yml is replaced by another version
ReplaceConfig ==
    /\ pc \notin {"DONE", "ERROR"} \/ prev = NoPrev
    /\ cfg_file' \in Versions \ {cfg_file}
    /\ UNCHANGED <<pc, transcript, force_source, key_present, resp, clock, anchor,
                   llm_ret, rules_called, facts, evidence, source, form,
                   draft_email, dt_info, ra_type, assess_cache, ra_result,
                   cfg_loaded, cfg_read, prev>>

NextRuns ==
    \/ SelectSourceDefault
    \/ Normalize
    \/ DatetimeFallback
    \/ DatetimeSanity
    \/ PolicyTriggers
    \/ Render
    \/ NextRequest
    \/ ReplaceConfig

SpecRuns == InitRuns /\ [][NextRuns]_vars

\* every read of the file made so far by the running call returned what the
\* same read returned to the previous call (the rules are served by the cache)
FileReads == {"patterns", "triggers", "notifications"}
ConfigUnchanged ==
    /\ prev.called
    /\ \A k \in FileReads :
          cfg_read[k] # NONE => cfg_read[k] = prev.cfg_read[k]

\* the keys and the email lines that carry reported_at or a timestamp
\* inferred relative to the call
Timestamps == {"reported_at", "date_time_of_incident"}
TimestampLines == {"Date/Time: ", "Reported At: "}

\* C15: with no credential and the configuration unchanged, a second run of
\* the rule extractor on the same text returns the same facts and the same
\* evidence (entries, order, indices), and a second analysis of the same
\* request returns the same output except for reported_at and the timestamps
\* anchored at the call.
C15_Deterministic ==
    ConfigUnchanged =>
        /\ pc = "NORMALIZE" =>
              /\ facts = prev.facts
              /\ Len(evidence) <= Len(prev.evidence)
              /\ evidence = SubSeq(prev.evidence, 1, Len(evidence))
        /\ pc = "ERROR" => prev.pc = "ERROR"
        /\ pc = "DONE" =>
              /\ prev.pc = "DONE"
              /\ source = prev.source
              /\ evidence = prev.evidence
              /\ \A k \in FormKeys \ Timestamps : form[k] = prev.form[k]
              /\ Len(draft_email) = Len(prev.draft_email)
              /\ \A i \in 1..Len(draft_email) :
                    draft_email[i].label \notin TimestampLines =>
                        draft_email[i] = prev.draft_email[i]

\* a second analysis of the example transcript finished, its assessment rules
\* served by the cache, with a later clock than the first
C15_Witness ==
    /\ ConfigUnchanged
    /\ pc = "DONE"
    /\ transcript = ExampleText
    /\ Get(facts, "if_yes_which_risk_assessment")
          = Str(<<"moving and handling risk assessment review">>)
    /\ form["reported_at"] # prev.form["reported_at"]

----------------------------------------------------------------------------
(* The datetime fallback stage *)

\* what the inference engine returned to the stage that is being left
Inferred == dt_info'.info

\* the form differs from the one before the step at most on the keys K
FormFrame(K) == \A k \in FormKeys \ K : form'[k] = form[k]

\* existing actions with the hint joined to them by " | ", or the hint alone
WithHint(existing) ==
    IF Truthy(existing) THEN Str(existing.s \o <<HINT>>) ELSE Str(<<HINT>>)

\* C16: DATETIME_FALLBACK leaves form and evidence unchanged when the form has
\* a date_time_of_incident, and when it has none and nothing is inferred; when
\* it has none and a value is inferred the field is set to it, the hint is
\* appended to immediate_actions_taken (joined with " | " to existing text)
\* only on confidence "low", one date_time_of_incident evidence entry is
\* appended when a quote was produced, and no other form field changes.
C16_FallbackFrame ==
    [][pc = "DATETIME_FALLBACK" =>
         IF Truthy(form["date_time_of_incident"])
         THEN form' = form /\ evidence' = evidence
         ELSE IF ~Truthy(Inferred.value)
         THEN form' = form /\ evidence' = evidence
         ELSE /\ form'["date_time_of_incident"] = Inferred.value
              /\ form'["immediate_actions_taken"] =
                    IF Inferred.confidence = "low"
                    THEN WithHint(form["immediate_actions_taken"])
                    ELSE form["immediate_actions_taken"]
              /\ evidence' =
                    IF Truthy(Inferred.evidence_quote)
                    THEN Append(evidence,
                                Ev("date_time_of_incident", Inferred.evidence_quote,
                                   NONE, NONE))
                    ELSE evidence
              /\ FormFrame({"date_time_of_incident", "immediate_actions_taken"})
    ]_vars

\* the stage was left with a datetime inferred at low confidence and the hint
\* joined to the actions the extractor supplied
C16_Witness ==
    /\ pc = "DATETIME_SANITY"
    /\ dt_info.called
    /\ dt_info.info.confidence = "low"
    /\ form["date_time_of_incident"] = dt_info.info.value
    /\ form["immediate_actions_taken"] = Str(<<"Gave water", HINT>>)
    /\ Len(evidence) = 1

\* C17: the inference run by DATETIME_FALLBACK is anchored at the call-start
\* instant, the one DATETIME_SANITY compares against, also when the clock
\* advanced between the start of the call and the fallback stage.
C17_AnchoredAtCallStart ==
    dt_info.called =>
        /\ dt_info.now = anchor
        /\ dt_info.info = extract_incident_datetime(transcript, anchor)

----------------------------------------------------------------------------
(* One extractor per analysis *)

RuleEvidence ==
    extract_with_rules(transcript, cfg_file, _load_assessment_rules(cfg_file)).evidence

\* seq starts with the entries of head, in their order
StartsWith(seq, head) ==
    Len(head) <= Len(seq) /\ SubSeq(seq, 1, Len(head)) = head

\* the facts and the leading evidence entries are those of one extractor
FromRulesOnly ==
    /\ facts = RuleFacts
    /\ StartsWith(evidence, RuleEvidence)
    /\ \A i \in 1..Len(evidence) :
          i > Len(RuleEvidence) => evidence[i].field = "date_time_of_incident"

FromLlmOnly ==
    /\ ~rules_called
    /\ facts = llm_ret.facts
    /\ StartsWith(evidence, llm_ret.evidence)
    /\ \A i \in 1..Len(evidence) :
          i > Len(llm_ret.evidence) => evidence[i].field = "date_time_of_incident"

\* a step of a later stage keeps the entries it found, in their order
AppendOnly == pc \in AfterSelection => StartsWith(evidence', evidence)

\* C18: facts and extractor-produced evidence of one analysis come from exactly
\* one extractor: after a fallback to the rule extractor nothing returned by
\* the LLM extractor is left in facts, form or evidence, with source "llm"
\* nothing of the rule extractor is present, and the later stages only append
\* to the evidence, never removing or reordering entries.
C18_OneExtractor ==
    /\ [](/\ (pc \in AfterSelection /\ rules_called) => FromRulesOnly
          /\ (pc \in AfterSelection /\ source = "llm") => FromLlmOnly)
    /\ [][AppendOnly]_vars

\* the LLM call failed, the rule extractor supplied the incident type and its
\* evidence, and the fallback stage appended the datetime evidence after it
C18_Witness ==
    /\ pc = "DONE"
    /\ llm_ret.called
    /\ rules_called
    /\ Len(evidence) = 2
    /\ evidence[1].field = "incident_type"
    /\ evidence[2].field = "date_time_of_incident"

----------------------------------------------------------------------------
(* Evidence indices of the rule extractor *)

\* the entry's indices delimit its quote in the transcript
IndicesDelimitQuote(e) ==
    /\ 0 <= e.start_idx.i
    /\ e.start_idx.i <= e.end_idx.i
    /\ e.end_idx.i <= Len(transcript)
    /\ e.quote = Txt(Slice(transcript, e.start_idx.i, e.end_idx.i))

\* C19: every evidence entry of the rule extractor that has indices satisfies
\* 0 <= start_idx <= end_idx <= len(transcript), and the transcript between
\* start_idx and end_idx is the entry's quote.
C19_IndicesDelimitQuotes ==
    (rules_called /\ pc \in AfterSelection) =>
        \A i \in 1..Len(evidence) :
            (evidence[i].start_idx # NONE /\ evidence[i].end_idx # NONE) =>
                IndicesDelimitQuote(evidence[i])

----------------------------------------------------------------------------
(* One version of the configuration per analysis *)

\* what the reads made so far by the running call returned is what version c
\* of the file holds
ReadsFrom(c) ==
    /\ cfg_read.patterns \in {NONE, Read(load_incident_config_strict(c))}
    /\ cfg_read.rules \in {NONE, Read(_load_assessment_rules(c))}
    /\ cfg_read.triggers \in {NONE, Read(load_global_policy_triggers(c))}
    /\ cfg_read.notifications \in {NONE, Read(load_notifications(c))}

\* C20: when the configuration resource is replaced between or during
\* analyses, every single analysis evaluates its patterns and locations, its
\* assessment rules, its policy triggers and its notification policy from one
\* and the same version of the resource.
C20_OneVersion == \E c \in Versions : ReadsFrom(c)

----------------------------------------------------------------------------
(* The two datetime stages together *)

\* how often the confirmation hint stands in immediate_actions_taken, and how
\* many date_time_of_incident entries the evidence holds
HintCount ==
    LET segs == Segments(Get(form, "immediate_actions_taken"))
    IN Cardinality({i \in 1..Len(segs) : segs[i] = HINT})

DtEvidenceCount ==
    Cardinality({i \in 1..Len(evidence) :
                    evidence[i].field = "date_time_of_incident"})

\* the fallback stage of this analysis wrote an inferred value into the form
FallbackSet == dt_info.called /\ Truthy(dt_info.info.value)

\* the sanity stage leaves form and evidence as the fallback stage left them
SanityKeepsFallback ==
    (pc = "DATETIME_SANITY" /\ FallbackSet) =>
        /\ pc' # "ERROR"
        /\ form' = form
        /\ evidence' = evidence

\* C21: in one analysis DATETIME_FALLBACK and DATETIME_SANITY together append
\* the confirmation hint at most once and at most one date_time_of_incident
\* evidence entry: a value set by the fallback stage is not re-inferred,
\* replaced or nulled by the sanity stage.
C21_InferredOnce ==
    /\ [](HintCount <= 1 /\ DtEvidenceCount <= 1)
    /\ [][SanityKeepsFallback]_vars

\* the sanity stage was passed with the value the fallback stage inferred from
\* "99 hours ago", the hint and the evidence entry each present once
C21_Witness ==
    /\ pc = "POLICY_TRIGGERS"
    /\ FallbackSet
    /\ \E i \in 1..Len(transcript) : transcript[i] = NinetyNineHoursAgo
    /\ ~HasDateToken
    /\ form["date_time_of_incident"] = dt_info.info.value
    /\ HintCount = 1
    /\ DtEvidenceCount = 1

====
